---- MODULE Spec2Model ----
(***************************************************************************)
(* Connector PR dashboard backend (backend/src/index.ts).                  *)
(*                                                                         *)
(* Thirteen specifications share this module:                              *)
(*   SpecTimeline   the timeline reconstructor and validator, applied to   *)
(*                  inputs drawn from bounded sets;                        *)
(*   SpecTimelineDays  the reconstructor applied to PRs with up to three   *)
(*                  reviews on whole days after the creation of the PR;    *)
(*   Spec           the in-memory store and the fetch handlers that run    *)
(*                  interleaved on it;                                     *)
(*   SpecCache      the comment-categorization cache: its routes, the      *)
(*                  post-fetch callback, the clock, and a comment fetch    *)
(*                  that changes the store under it;                       *)
(*   SpecCacheLive  SpecCache with a categorizer that does not throw and   *)
(*                  always returns;                                        *)
(*   SpecCacheRuns  SpecCache with two categorization runs in flight;      *)
(*   SpecReviews    the refresh of the PRs and their reviews, with answers *)
(*                  that name a reviewer more than once;                   *)
(*   SpecClassifier isHumanComment called repeatedly on a comment, with    *)
(*                  the RegExp objects it shares between calls;            *)
(*   SpecValidator  validateTimeline applied to stages, cycles, issues and *)
(*                  a confidence drawn from bounded sets;                  *)
(*   SpecStrategy   determineAnalysisStrategy applied to comments and      *)
(*                  reviews drawn from bounded sets;                       *)
(*   SpecSummaries  the summary routes and the background summary runs,    *)
(*                  two of them in flight on one store;                    *)
(*   SpecBackground repeated background summary runs under weak fairness,  *)
(*                  with a summarizer that may fail;                       *)
(*   SpecRateLimiter  the rate-limiting middleware and the clock.          *)
(*                                                                         *)
(* Time is counted in hours since an arbitrary epoch.  Durations are in    *)
(* tenths of a day; confidence scores are doubles, kept exactly.           *)
(***************************************************************************)
EXTENDS Integers, Sequences, FiniteSets, TLC

VARIABLES
    now,          \* the wall clock (Date.now / new Date()), in hours
    tlPr,         \* timeline harness: the PR handed to the reconstructor
    tlReviews,    \* timeline harness: the review array handed over
    tlComments,   \* timeline harness: the comment array handed over
    tlResult,     \* timeline harness: <<>> or <<result of the last call>>
    tlLocals,     \* timeline harness: <<>> or <<locals of the last call>>
    pullRequests, \* the array the global `pullRequests` refers to
    reviews,      \* the global array `reviews`
    comments,     \* the global array `comments`
    commentCategorizationCache,  \* the cache slot: <<>> or <<entry>>
    fetchTasks,   \* fetch handlers in flight, by slot
    catTasks,     \* categorization runs in flight, by slot
    postFetchTimer,  \* a callback scheduled by fetchConnectorPRs is pending
    response,     \* <<>> or <<what a categorization route answered in the
                  \* last step>>
    prsUpdated,   \* <<>> or <<the data of the prs_updated message that was
                  \* broadcast in the last step>>
    prSummaries,  \* the Map `prSummaries`: by PR number, <<>> or <<summary>>
    sumTasks,     \* summary handlers and background summary runs in flight
    sumResponse,  \* <<>> or <<what a summary route answered in the last step>>
    bgAttempted,  \* the PRs a background summary run has logged an attempt for
    requestCounts,  \* the Map `requestCounts`: by client address, <<>> or
                  \* <<[count, resetTime]>>
    rateAnswer,   \* <<>> or <<what the rate limiter did with the last request>>
    passedInWindow,  \* by client address, the requests that reached a handler
                  \* since the client's window was opened
    fnArgs,       \* function harness: <<>> or <<the arguments of the calls>>
    fnResults,    \* function harness: what the calls so far returned
    regexLastIndex  \* lastIndex of the RegExp objects of BOT_PATTERNS and
                  \* AUTOMATED_CONTENT_PATTERNS, in the order of the arrays

tlVars == <<tlPr, tlReviews, tlComments, tlResult, tlLocals>>

summaryVars == <<prSummaries, sumTasks, sumResponse, bgAttempted>>

rateVars == <<requestCounts, rateAnswer, passedInWindow>>

serverVars ==
    <<pullRequests, reviews, comments, commentCategorizationCache, fetchTasks,
      catTasks, postFetchTimer, response, prsUpdated, summaryVars, rateVars>>

\* No summary has been asked for.
SummariesOff ==
    /\ prSummaries = <<>>
    /\ sumTasks = <<>>
    /\ sumResponse = <<>>
    /\ bgAttempted = {}

\* No request has met the rate limiter.
RateLimiterOff ==
    /\ requestCounts = <<>>
    /\ rateAnswer = <<>>
    /\ passedInWindow = <<>>

fnVars == <<fnArgs, fnResults, regexLastIndex>>

\* No function call is under way.
FunctionsOff ==
    /\ fnArgs = <<>>
    /\ fnResults = <<>>
    /\ regexLastIndex = <<>>

\* A nullable value is <<>> (null / undefined) or <<v>>.
None == <<>>
Some(v) == <<v>>
IsSome(x) == x # <<>>
Val(x) == x[1]

\* JavaScript's `a || b` on nullable strings.
OrElse(x, y) == IF IsSome(x) THEN x ELSE y

(***************************************************************************)
(* Bounds and input domains of the timeline harness.                       *)
(***************************************************************************)
MaxReviews == 2

\* Timestamps: 0h, +6h, +30h (1.25 days), +780h (32.5 days).  PRs are created
\* at +6h, so that a review at 0h precedes the creation of its PR.
Times == {0, 6, 30, 780}
CreatedTimes == {6}
UpdatedTimes == {6, 30, 780}
MergedTimes == {0, 30, 780}
\* The reconstructor is called at +30h, or at 0h by a server whose clock is
\* behind the timestamps of GitHub.
ClockStart == {0, 30}
Statuses == {"open", "merged", "closed"}
ReviewStates == {"commented", "approved", "changes_requested"}
TlReviewers == {"alice"}

HoursPerDay == 24

(***************************************************************************)
(* calculateDaysDiff: Math.round(ms / 86400000 * 10) / 10, here in tenths  *)
(* of a day.  Math.round rounds halves towards +Infinity.                  *)
(***************************************************************************)
MathRound(num, den) == (2 * num + den) \div (2 * den)

calculateDaysDiff(startDate, endDate) ==
    MathRound((endDate - startDate) * 10, HoursPerDay)

(***************************************************************************)
(* Array.prototype.sort with the comparator a.submitted_at - b.submitted_at*)
(* (stable: equal timestamps keep their relative order).                   *)
(***************************************************************************)
\* an insertion that puts r in front of the elements of its own time
RECURSIVE InsertByTime_TiesFirst(_, _)
InsertByTime_TiesFirst(r, s) ==
    IF s = <<>> THEN <<r>>
    ELSE IF r.submitted_at <= Head(s).submitted_at THEN <<r>> \o s
    ELSE <<Head(s)>> \o InsertByTime_TiesFirst(r, Tail(s))

RECURSIVE InsertByTime(_, _)
InsertByTime(r, s) ==
    IF s = <<>> THEN <<r>>
    ELSE IF r.submitted_at < Head(s).submitted_at THEN <<r>> \o s
    ELSE <<Head(s)>> \o InsertByTime(r, Tail(s))

RECURSIVE SortByTimeFrom(_, _)
SortByTimeFrom(s, i) ==
    IF i = 0 THEN <<>>
    ELSE InsertByTime(s[i], SortByTimeFrom(s, i - 1))

\* the array used in the order it was handed over
SortReviews_Unsorted(s) == s

\* Element i is inserted behind every element of 1..i-1 that is not later.
SortReviews(s) == SortByTimeFrom(s, Len(s))

(***************************************************************************)
(* findChangesAddressedTime                                                *)
(***************************************************************************)
\* the last of the subsequent reviews instead of the first
findChangesAddressedTime_Last(pr, changesRequestedAt, allReviews) ==
    LET subsequentReviews ==
            SelectSeq(allReviews,
                LAMBDA review :
                    /\ review.submitted_at > changesRequestedAt
                    /\ review.review_state \in {"approved", "commented"})
    IN  IF Len(subsequentReviews) > 0
        THEN Some(subsequentReviews[Len(subsequentReviews)].submitted_at)
        ELSE IF pr.updated_at > changesRequestedAt
        THEN Some(pr.updated_at)
        ELSE None

\* the fallback taken whenever updated_at is not before the request
findChangesAddressedTime_NotBefore(pr, changesRequestedAt, allReviews) ==
    LET subsequentReviews ==
            SelectSeq(allReviews,
                LAMBDA review :
                    /\ review.submitted_at > changesRequestedAt
                    /\ review.review_state \in {"approved", "commented"})
    IN  IF Len(subsequentReviews) > 0
        THEN Some(subsequentReviews[1].submitted_at)
        ELSE IF pr.updated_at >= changesRequestedAt
        THEN Some(pr.updated_at)
        ELSE None

\* a review submitted at the request time resolves as well
findChangesAddressedTime_AtOrAfter(pr, changesRequestedAt, allReviews) ==
    LET subsequentReviews ==
            SelectSeq(allReviews,
                LAMBDA review :
                    /\ review.submitted_at >= changesRequestedAt
                    /\ review.review_state \in {"approved", "commented"})
    IN  IF Len(subsequentReviews) > 0
        THEN Some(subsequentReviews[1].submitted_at)
        ELSE IF pr.updated_at > changesRequestedAt
        THEN Some(pr.updated_at)
        ELSE None

findChangesAddressedTime(pr, changesRequestedAt, allReviews) ==
    LET subsequentReviews ==
            SelectSeq(allReviews,
                LAMBDA review :
                    /\ review.submitted_at > changesRequestedAt
                    /\ review.review_state \in {"approved", "commented"})
    IN  IF Len(subsequentReviews) > 0
        THEN Some(subsequentReviews[1].submitted_at)
        ELSE IF pr.updated_at > changesRequestedAt
        THEN Some(pr.updated_at)
        ELSE None

(***************************************************************************)
(* The confidence score is an IEEE 754 double.  Every value the validator  *)
(* can reach is a multiple of 2^-57 below 8 in magnitude, so a double is   *)
(* kept as a sign and a magnitude counted in units of 2^-57; the magnitude *)
(* is four limbs of 15 bits, least significant first.  A difference is     *)
(* computed exactly and then rounded to 53 significant bits, ties to even, *)
(* as the subtraction of two doubles is.                                   *)
(***************************************************************************)
LimbBase == 32768

Double(neg, mag) == [neg |-> neg, mag |-> mag]

\* The literals of the source: 0x1.0p+0, 0x1.3333333333333p-2,
\* 0x1.999999999999ap-3, 0x1.999999999999ap-4, 0x1.999999999999ap-5,
\* 0x1.999999999999ap-1, 0x1.3333333333333p-1, 0x1.0p-1.
DoubleZero == Double(FALSE, <<0, 0, 0, 0>>)
DoubleOne == Double(FALSE, <<0, 0, 0, 4096>>)
Double_0_3 == Double(FALSE, <<6552, 13107, 26214, 1228>>)
Double_0_2 == Double(FALSE, <<26216, 19660, 6553, 819>>)
Double_0_1 == Double(FALSE, <<13108, 26214, 19660, 409>>)
Double_0_05 == Double(FALSE, <<6554, 13107, 26214, 204>>)
Double_0_8 == Double(FALSE, <<6560, 13107, 26214, 3276>>)
Double_0_6 == Double(FALSE, <<13104, 26214, 19660, 2457>>)
Double_0_5 == Double(FALSE, <<0, 0, 0, 2048>>)

\* a < b on magnitudes
MagLess(a, b) ==
    \E i \in 1..4 : a[i] < b[i] /\ \A j \in (i + 1)..4 : a[j] = b[j]

\* a + b on magnitudes, limb by limb with carry
MagAdd(a, b) ==
    LET s1 == a[1] + b[1]
        s2 == a[2] + b[2] + (s1 \div LimbBase)
        s3 == a[3] + b[3] + (s2 \div LimbBase)
        s4 == a[4] + b[4] + (s3 \div LimbBase)
    IN  <<s1 % LimbBase, s2 % LimbBase, s3 % LimbBase, s4 % LimbBase>>

\* a - b on magnitudes, for a >= b, limb by limb with borrow
MagSub(a, b) ==
    LET d1 == a[1] - b[1]
        d2 == a[2] - b[2] - (IF d1 < 0 THEN 1 ELSE 0)
        d3 == a[3] - b[3] - (IF d2 < 0 THEN 1 ELSE 0)
        d4 == a[4] - b[4] - (IF d3 < 0 THEN 1 ELSE 0)
    IN  <<d1 % LimbBase, d2 % LimbBase, d3 % LimbBase, d4 % LimbBase>>

\* The number of bits a magnitude has beyond 53: the top limb holds bits 45
\* to 59.
RECURSIVE ExcessBits(_)
ExcessBits(top) == IF top < 256 THEN 0 ELSE 1 + ExcessBits(top \div 2)

RECURSIVE Pow2(_)
Pow2(k) == IF k = 0 THEN 1 ELSE 2 * Pow2(k - 1)

\* Round a magnitude to 53 significant bits, ties to even.
MagRound(mag) ==
    LET quantum == Pow2(ExcessBits(mag[4]))
        rest == mag[1] % quantum
        down == MagSub(mag, <<rest, 0, 0, 0>>)
        up == MagAdd(down, <<quantum, 0, 0, 0>>)
        odd == (mag[1] \div quantum) % 2 = 1
    IN  IF 2 * rest < quantum THEN down
        ELSE IF 2 * rest > quantum THEN up
        ELSE IF odd THEN up ELSE down

\* x - y on doubles
DoubleSub(x, y) ==
    IF x.neg # y.neg
    THEN Double(x.neg, MagRound(MagAdd(x.mag, y.mag)))
    ELSE IF MagLess(x.mag, y.mag)
    THEN Double(~x.neg, MagRound(MagSub(y.mag, x.mag)))
    ELSE IF x.mag = y.mag THEN DoubleZero
    ELSE Double(x.neg, MagRound(MagSub(x.mag, y.mag)))

\* x < y and x >= y on doubles
DoubleLess(x, y) ==
    IF x.neg # y.neg THEN x.neg /\ (x.mag # DoubleZero.mag \/ y.mag # DoubleZero.mag)
    ELSE IF x.neg THEN MagLess(y.mag, x.mag)
    ELSE MagLess(x.mag, y.mag)

\* x > y
DoubleGeq_Strict(x, y) == DoubleLess(y, x)

DoubleGeq(x, y) == ~DoubleLess(x, y)

\* Math.max(0, Math.min(1, x))
Clamp01(x) ==
    LET capped == IF DoubleLess(DoubleOne, x) THEN DoubleOne ELSE x
    IN  IF DoubleLess(capped, DoubleZero) THEN DoubleZero ELSE capped

(***************************************************************************)
(* validateTimeline                                                        *)
(***************************************************************************)
Issue(kind, stage, prev, value) ==
    [kind |-> kind, stage |-> stage, prev |-> prev, value |-> value]

UnresolvedIssue == Issue("no_clear_resolution", "", "", 0)

\* the chronological check compared against the first stage only
RECURSIVE OrderIssues_AgainstFirst(_, _)
OrderIssues_AgainstFirst(stages, i) ==
    IF i > Len(stages) THEN <<>>
    ELSE (IF stages[i].timestamp < stages[1].timestamp
          THEN <<Issue("out_of_order", stages[i].stage, stages[1].stage, 0)>>
          ELSE <<>>) \o OrderIssues_AgainstFirst(stages, i + 1)

\* "Stage X occurs before Y", one per adjacent pair, 0.3 each
RECURSIVE OrderIssues(_, _)
OrderIssues(stages, i) ==
    IF i > Len(stages) THEN <<>>
    ELSE (IF stages[i].timestamp < stages[i-1].timestamp
          THEN <<Issue("out_of_order", stages[i].stage, stages[i-1].stage, 0)>>
          ELSE <<>>) \o OrderIssues(stages, i + 1)

\* `stage.duration_from_previous && ...`: undefined and 0 are falsy
DurationTruthy(stage) ==
    IsSome(stage.duration_from_previous) /\ Val(stage.duration_from_previous) # 0

RECURSIVE DurationIssues(_, _)
DurationIssues(stages, i) ==
    IF i > Len(stages) THEN <<>>
    ELSE LET stage == stages[i]
             neg == IF DurationTruthy(stage) /\ Val(stage.duration_from_previous) < 0
                    THEN <<Issue("negative_duration", stage.stage, "", 0)>>
                    ELSE <<>>
             long == IF DurationTruthy(stage) /\ Val(stage.duration_from_previous) > 300
                     THEN <<Issue("long_duration", stage.stage, "",
                                  Val(stage.duration_from_previous))>>
                     ELSE <<>>
         IN  neg \o long \o DurationIssues(stages, i + 1)

RECURSIVE CycleIssues(_, _)
CycleIssues(reviewCycles, i) ==
    IF i > Len(reviewCycles) THEN <<>>
    ELSE (IF reviewCycles[i].duration_days > 140
          THEN <<Issue("long_cycle", "", "", reviewCycles[i].cycle_number)>>
          ELSE <<>>) \o CycleIssues(reviewCycles, i + 1)

Penalty(issue) ==
    CASE issue.kind = "out_of_order" -> Double_0_3
      [] issue.kind = "negative_duration" -> Double_0_2
      [] issue.kind = "long_duration" -> Double_0_1
      [] issue.kind = "long_cycle" -> Double_0_05

\* `adjustedConfidence -= penalty`, once per issue in the order the issues
\* are found.
RECURSIVE SubtractPenalties(_, _)
SubtractPenalties(confidence, iss) ==
    IF iss = <<>> THEN confidence
    ELSE SubtractPenalties(DoubleSub(confidence, Penalty(Head(iss))), Tail(iss))

\* the issues validateTimeline appends, in the order of its three loops
foundIssues(stages, reviewCycles) ==
    OrderIssues(stages, 2) \o DurationIssues(stages, 1) \o CycleIssues(reviewCycles, 1)

\* the confidence accumulated by validateTimeline before the clamp
adjustedConfidence(stages, reviewCycles, confidenceScore) ==
    SubtractPenalties(confidenceScore, foundIssues(stages, reviewCycles))

\* data_quality taken from the confidence alone
validateTimeline_QualityByScore(stages, events, reviewCycles, issues, confidenceScore) ==
    LET found == foundIssues(stages, reviewCycles)
        additionalIssues == issues \o found
        adjusted == SubtractPenalties(confidenceScore, found)
        dataQuality ==
            IF DoubleGeq(adjusted, Double_0_8) THEN "high"
            ELSE IF DoubleGeq(adjusted, Double_0_6) THEN "medium"
            ELSE "low"
    IN  [ is_valid |-> DoubleGeq(adjusted, Double_0_5) /\ Len(additionalIssues) < 5,
          confidence_score |-> Clamp01(adjusted),
          issues |-> additionalIssues,
          data_quality |-> dataQuality ]

validateTimeline(stages, events, reviewCycles, issues, confidenceScore) ==
    LET found == foundIssues(stages, reviewCycles)
        additionalIssues == issues \o found
        adjusted == SubtractPenalties(confidenceScore, found)
        dataQuality ==
            IF DoubleGeq(adjusted, Double_0_8) /\ Len(additionalIssues) = 0
            THEN "high"
            ELSE IF DoubleGeq(adjusted, Double_0_6) /\ Len(additionalIssues) <= 2
            THEN "medium"
            ELSE "low"
    IN  [ is_valid |-> DoubleGeq(adjusted, Double_0_5) /\ Len(additionalIssues) < 5,
          confidence_score |-> Clamp01(adjusted),
          issues |-> additionalIssues,
          data_quality |-> dataQuality ]

(***************************************************************************)
(* calculateEnhancedPRTimeline                                             *)
(***************************************************************************)
\* details is "" where the code leaves it out
Event(type, timestamp, actor, details) ==
    [event_type |-> type, timestamp |-> timestamp, actor |-> actor,
     details |-> details]

Stage(name, timestamp, duration) ==
    [stage |-> name, timestamp |-> timestamp, duration_from_previous |-> duration]

\* stages.find(s => s.stage === name)?.timestamp
StageTime(stages, name) ==
    LET found == SelectSeq(stages, LAMBDA s : s.stage = name)
    IN  IF Len(found) > 0 THEN Some(found[1].timestamp) ELSE None

HasStage(stages, name) == IsSome(StageTime(stages, name))

\* The review cycle opened by the changes_requested review at position i.
CycleOf(pr, sortedReviews, i, number) ==
    LET review == sortedReviews[i]
        changesAddressedTime ==
            findChangesAddressedTime(pr, review.submitted_at, sortedReviews)
    IN  [ cycle_number |-> number,
          changes_requested_at |-> review.submitted_at,
          changes_addressed_at |-> changesAddressedTime,
          duration_days |->
              IF IsSome(changesAddressedTime)
              THEN calculateDaysDiff(review.submitted_at, Val(changesAddressedTime))
              ELSE 0,
          reviewer |-> review.reviewer_username ]

\* The loop over sortedReviews, from position i on; acc carries the loop's
\* locals (events, reviewCycles, currentCycle, the last request and the last
\* approval time).
RECURSIVE WalkReviews(_, _, _, _)
WalkReviews(pr, sortedReviews, i, acc) ==
    IF i > Len(sortedReviews) THEN acc
    ELSE
      LET review == sortedReviews[i]
          first == IF i = 1
                   THEN <<Event("first_review", review.submitted_at,
                                review.reviewer_username, review.review_state)>>
                   ELSE <<>>
          isCR == review.review_state = "changes_requested"
          cycle == CycleOf(pr, sortedReviews, i, acc.currentCycle + 1)
          crEvents ==
              IF isCR
              THEN <<Event("changes_requested", review.submitted_at,
                           review.reviewer_username, "")>>
                   \o (IF IsSome(cycle.changes_addressed_at)
                       THEN <<Event("changes_addressed",
                                    Val(cycle.changes_addressed_at), pr.author, "")>>
                       ELSE <<>>)
              ELSE <<>>
          isAp == review.review_state = "approved"
          apEvents ==
              IF isAp
              THEN <<Event("approved", review.submitted_at,
                           review.reviewer_username, "")>>
              ELSE <<>>
      IN  WalkReviews(pr, sortedReviews, i + 1,
            [ events |-> acc.events \o first \o crEvents \o apEvents,
              reviewCycles |-> IF isCR THEN Append(acc.reviewCycles, cycle)
                               ELSE acc.reviewCycles,
              currentCycle |-> IF isCR THEN acc.currentCycle + 1
                               ELSE acc.currentCycle,
              lastChangesRequestedTime |->
                  IF isCR THEN Some(review.submitted_at)
                  ELSE acc.lastChangesRequestedTime,
              lastApprovalTime |->
                  IF isAp THEN Some(review.submitted_at)
                  ELSE acc.lastApprovalTime ])

\* The locals of calculateEnhancedPRTimeline after the loop over the reviews
\* (lines 512-610): the pr_raised and first_review stages, the events, the
\* review cycles, the last approval and the last request.
afterLoop(pr, sortedReviews, walk) ==
    LET hasReview == Len(sortedReviews) > 0
        duration == IF hasReview
                    THEN calculateDaysDiff(pr.created_at, sortedReviews[1].submitted_at)
                    ELSE 0
    IN  [ stages |->
              <<Stage("pr_raised", pr.created_at, None)>>
              \o (IF hasReview
                  THEN <<Stage("first_review", sortedReviews[1].submitted_at,
                               Some(duration))>>
                  ELSE <<>>),
          events |-> walk.events,
          reviewCycles |-> walk.reviewCycles,
          lastChangesRequestedTime |-> walk.lastChangesRequestedTime,
          lastApprovalTime |-> walk.lastApprovalTime,
          issues |-> <<>>,
          confidenceScore |-> DoubleOne,
          pr_raised_to_first_review |-> duration,
          first_review_to_comments_fixed |-> 0,
          comments_fixed_to_approved |-> 0,
          approved_to_merged |-> 0 ]

\* an unresolved last cycle passed over in silence
commentsFixedStep_Silent(pr, s) ==
    IF ~(IsSome(s.lastChangesRequestedTime) /\ Len(s.reviewCycles) > 0) THEN s
    ELSE
      LET lastCycle == s.reviewCycles[Len(s.reviewCycles)]
      IN  IF IsSome(lastCycle.changes_addressed_at)
          THEN LET commentsFixedTime == Val(lastCycle.changes_addressed_at)
                   baseTime == Val(OrElse(StageTime(s.stages, "first_review"),
                                          Some(pr.created_at)))
                   duration == calculateDaysDiff(baseTime, commentsFixedTime)
               IN  [s EXCEPT
                      !.first_review_to_comments_fixed = duration,
                      !.stages = Append(@, Stage("comments_fixed", commentsFixedTime,
                                                 Some(duration)))]
          ELSE s

\* the comments_fixed stage taken from the first cycle
commentsFixedStep_FirstCycle(pr, s) ==
    IF ~(IsSome(s.lastChangesRequestedTime) /\ Len(s.reviewCycles) > 0) THEN s
    ELSE
      LET lastCycle == s.reviewCycles[1]
      IN  IF IsSome(lastCycle.changes_addressed_at)
          THEN LET commentsFixedTime == Val(lastCycle.changes_addressed_at)
                   baseTime == Val(OrElse(StageTime(s.stages, "first_review"),
                                          Some(pr.created_at)))
                   duration == calculateDaysDiff(baseTime, commentsFixedTime)
               IN  [s EXCEPT
                      !.first_review_to_comments_fixed = duration,
                      !.stages = Append(@, Stage("comments_fixed", commentsFixedTime,
                                                 Some(duration)))]
          ELSE [s EXCEPT
                  !.issues = Append(@, UnresolvedIssue),
                  !.confidenceScore = DoubleSub(@, Double_0_2)]

\* lines 612-632: the comments_fixed stage, or the unresolved-cycle issue
commentsFixedStep(pr, s) ==
    IF ~(IsSome(s.lastChangesRequestedTime) /\ Len(s.reviewCycles) > 0) THEN s
    ELSE
      LET lastCycle == s.reviewCycles[Len(s.reviewCycles)]
      IN  IF IsSome(lastCycle.changes_addressed_at)
          THEN LET commentsFixedTime == Val(lastCycle.changes_addressed_at)
                   baseTime == Val(OrElse(StageTime(s.stages, "first_review"),
                                          Some(pr.created_at)))
                   duration == calculateDaysDiff(baseTime, commentsFixedTime)
               IN  [s EXCEPT
                      !.first_review_to_comments_fixed = duration,
                      !.stages = Append(@, Stage("comments_fixed", commentsFixedTime,
                                                 Some(duration)))]
          ELSE [s EXCEPT
                  !.issues = Append(@, UnresolvedIssue),
                  !.confidenceScore = DoubleSub(@, Double_0_2)]

\* lines 634-652: the approved stage
approvalStep(pr, s) ==
    IF ~IsSome(s.lastApprovalTime) THEN s
    ELSE
      LET baseTime == Val(OrElse(StageTime(s.stages, "comments_fixed"),
                          OrElse(StageTime(s.stages, "first_review"),
                                 Some(pr.created_at))))
          duration == calculateDaysDiff(baseTime, Val(s.lastApprovalTime))
      IN  [s EXCEPT
             !.comments_fixed_to_approved = duration,
             !.stages = IF ~HasStage(@, "approved")
                        THEN Append(@, Stage("approved", Val(s.lastApprovalTime),
                                             Some(duration)))
                        ELSE @]

\* a merged stage only for a PR whose status is merged
mergeStep_StatusMerged(pr, s) ==
    IF ~IsSome(pr.merged_at) \/ pr.status # "merged" THEN s
    ELSE
      LET baseTime == Val(OrElse(StageTime(s.stages, "approved"),
                          OrElse(StageTime(s.stages, "comments_fixed"),
                          OrElse(StageTime(s.stages, "first_review"),
                                 Some(pr.created_at)))))
          duration == calculateDaysDiff(baseTime, Val(pr.merged_at))
      IN  [s EXCEPT
             !.approved_to_merged = duration,
             !.events = Append(@, Event("merged", Val(pr.merged_at), "system", "")),
             !.stages = Append(@, Stage("merged", Val(pr.merged_at), Some(duration)))]

\* lines 654-676: the merged stage and event
mergeStep(pr, s) ==
    IF ~IsSome(pr.merged_at) THEN s
    ELSE
      LET baseTime == Val(OrElse(StageTime(s.stages, "approved"),
                          OrElse(StageTime(s.stages, "comments_fixed"),
                          OrElse(StageTime(s.stages, "first_review"),
                                 Some(pr.created_at)))))
          duration == calculateDaysDiff(baseTime, Val(pr.merged_at))
      IN  [s EXCEPT
             !.approved_to_merged = duration,
             !.events = Append(@, Event("merged", Val(pr.merged_at), "system", "")),
             !.stages = Append(@, Stage("merged", Val(pr.merged_at), Some(duration)))]

walkOf(pr, sortedReviews) ==
    WalkReviews(pr, sortedReviews, 1,
        [ events |-> <<Event("pr_created", pr.created_at, pr.author, "")>>,
          reviewCycles |-> <<>>,
          currentCycle |-> 0,
          lastChangesRequestedTime |-> None,
          lastApprovalTime |-> None ])

\* the merge stage pushed before the approval stage
reconstructSorted_MergeFirst(pr, sortedReviews) ==
    approvalStep(pr,
        mergeStep(pr,
            commentsFixedStep(pr,
                afterLoop(pr, sortedReviews, walkOf(pr, sortedReviews)))))

reconstructSorted(pr, sortedReviews) ==
    mergeStep(pr,
        approvalStep(pr,
            commentsFixedStep(pr,
                afterLoop(pr, sortedReviews, walkOf(pr, sortedReviews)))))

\* the reconstruction of the reviews of human reviewers only
reconstructionLocals_HumanOnly(pr, prReviews) ==
    reconstructSorted(pr,
        SortReviews(SelectSeq(prReviews,
                              LAMBDA r : r.reviewer_username # "dependabot[bot]")))

\* The locals of calculateEnhancedPRTimeline at the call of validateTimeline
\* (line 707).
reconstructionLocals(pr, prReviews) == reconstructSorted(pr, SortReviews(prReviews))

\* is_completed (line 715)
isCompleted_StatusMerged(pr) == pr.status = "merged"

isCompleted(pr) == pr.status = "merged" \/ pr.status = "closed"

\* achieved where a merge time is known
mergedAchieved_MergedAt(pr) == IsSome(pr.merged_at)

\* milestones.merged.achieved (line 703)
mergedAchieved(pr) == pr.status = "merged"

\* lines 678-722: durations up to now, milestones, validation, the result
timelineResult(pr, s, clock) ==
    LET endTime == Val(OrElse(pr.merged_at, Some(clock)))
        totalDuration == calculateDaysDiff(pr.created_at, endTime)
        lastActivityTime ==
            IF Len(s.stages) > 1 THEN s.stages[Len(s.stages)].timestamp
            ELSE pr.created_at
    IN  [ pr_number |-> pr.github_pr_number,
          pr_author |-> pr.author,
          total_duration |-> totalDuration,
          stages |-> s.stages,
          is_completed |-> isCompleted(pr),
          stage_durations |->
              [ pr_raised_to_first_review |-> s.pr_raised_to_first_review,
                first_review_to_comments_fixed |-> s.first_review_to_comments_fixed,
                comments_fixed_to_approved |-> s.comments_fixed_to_approved,
                approved_to_merged |-> s.approved_to_merged,
                ongoing_time |->
                    IF ~IsSome(pr.merged_at)
                    THEN calculateDaysDiff(lastActivityTime, clock)
                    ELSE 0,
                total_review_time |-> totalDuration ],
          milestones |->
              [ pr_created |-> [timestamp |-> Some(pr.created_at), achieved |-> TRUE],
                first_review |-> [timestamp |-> StageTime(s.stages, "first_review"),
                                  achieved |-> HasStage(s.stages, "first_review")],
                approved |-> [timestamp |-> s.lastApprovalTime,
                              achieved |-> IsSome(s.lastApprovalTime)],
                merged |-> [timestamp |-> pr.merged_at,
                            achieved |-> mergedAchieved(pr)] ],
          validation |-> validateTimeline(s.stages, s.events, s.reviewCycles,
                                          s.issues, s.confidenceScore),
          review_cycles |-> s.reviewCycles,
          actual_events |-> s.events ]

calculateEnhancedPRTimeline(pr, prReviews, prComments, clock) ==
    timelineResult(pr, reconstructionLocals(pr, prReviews), clock)

(***************************************************************************)
(* Where the timestamps of a stage come from.  A timestamp is a field of   *)
(* the PR or the submitted_at of the review at a position of the sorted    *)
(* array; stageSources names, for each stage after pr_raised, the          *)
(* timestamp its duration is counted from and the one it is counted to.    *)
(***************************************************************************)
PrField(name) == [record |-> "pr", field |-> name, index |-> 0]
ReviewAt(i) == [record |-> "review", field |-> "submitted_at", index |-> i]

SourceTime(pr, sortedReviews, source) ==
    IF source.record = "review" THEN sortedReviews[source.index].submitted_at
    ELSE IF source.field = "created_at" THEN pr.created_at
    ELSE IF source.field = "updated_at" THEN pr.updated_at
    ELSE Val(pr.merged_at)

Least(S) == CHOOSE i \in S : \A j \in S : i <= j
Greatest(S) == CHOOSE i \in S : \A j \in S : j <= i

\* findChangesAddressedTime: subsequentReviews[0], else pr.updated_at
changesAddressedSource(pr, changesRequestedAt, allReviews) ==
    LET subsequent == {i \in 1..Len(allReviews) :
                          /\ allReviews[i].submitted_at > changesRequestedAt
                          /\ allReviews[i].review_state \in {"approved", "commented"}}
    IN  IF subsequent # {} THEN Some(ReviewAt(Least(subsequent)))
        ELSE IF pr.updated_at > changesRequestedAt THEN Some(PrField("updated_at"))
        ELSE None

StageSource(name, from, to) == [stage |-> name, from |-> from, to |-> to]

stageSources(pr, sortedReviews) ==
    LET InState(state) ==
            {i \in 1..Len(sortedReviews) : sortedReviews[i].review_state = state}
        requests == InState("changes_requested")
        approvals == InState("approved")
        firstReview == IF sortedReviews # <<>> THEN ReviewAt(1)
                       ELSE PrField("created_at")
        commentsFixed ==
            IF requests = {} THEN None
            ELSE changesAddressedSource(pr,
                     sortedReviews[Greatest(requests)].submitted_at, sortedReviews)
        approvedBase == IF IsSome(commentsFixed) THEN Val(commentsFixed)
                        ELSE firstReview
        mergedBase == IF approvals # {} THEN ReviewAt(Greatest(approvals))
                      ELSE approvedBase
    IN  (IF sortedReviews # <<>>
         THEN <<StageSource("first_review", PrField("created_at"), ReviewAt(1))>>
         ELSE <<>>)
        \o (IF IsSome(commentsFixed)
            THEN <<StageSource("comments_fixed", firstReview, Val(commentsFixed))>>
            ELSE <<>>)
        \o (IF approvals # {}
            THEN <<StageSource("approved", approvedBase,
                               ReviewAt(Greatest(approvals)))>>
            ELSE <<>>)
        \o (IF IsSome(pr.merged_at)
            THEN <<StageSource("merged", mergedBase, PrField("merged_at"))>>
            ELSE <<>>)

(***************************************************************************)
(* The timeline harness: a PR, its reviews and comments are drawn from the *)
(* bounded domains; TimelineCall applies the reconstructor to them (and    *)
(* sorts the review array in place, as Array.prototype.sort does).         *)
(***************************************************************************)
TlPRs ==
    [ github_pr_number : {1},
      author : {"dev"},
      created_at : CreatedTimes,
      updated_at : UpdatedTimes,
      merged_at : {None} \cup {Some(t) : t \in MergedTimes},
      status : Statuses ]

TlReviewRecords ==
    [ reviewer_username : TlReviewers,
      review_state : ReviewStates,
      submitted_at : Times ]

TlCommentRecords == [ author : {"alice"}, created_at : {6} ]

TlCommentArrays == {<<>>} \cup {<<c>> : c \in TlCommentRecords}

SeqsUpTo(S, n) == UNION { [1..k -> S] : k \in 0..n }

InitTimeline ==
    /\ now \in ClockStart
    /\ tlPr \in TlPRs
    /\ tlReviews \in SeqsUpTo(TlReviewRecords, MaxReviews)
    /\ tlComments \in TlCommentArrays
    /\ tlResult = None
    /\ tlLocals = None
    /\ pullRequests = <<>>
    /\ reviews = <<>>
    /\ comments = <<>>
    /\ commentCategorizationCache = None
    /\ fetchTasks = <<>>
    /\ catTasks = <<>>
    /\ postFetchTimer = FALSE
    /\ response = None
    /\ prsUpdated = None
    /\ SummariesOff
    /\ RateLimiterOff
    /\ FunctionsOff

TimelineCall ==
    /\ LET conf == reconstructionLocals(tlPr, tlReviews).confidenceScore
           res == calculateEnhancedPRTimeline(tlPr, tlReviews, tlComments, now)
       IN  /\ tlResult' = Some(res)
           /\ tlLocals' =
                 Some([ confidenceScore |-> conf,
                        adjustedConfidence |->
                            adjustedConfidence(res.stages, res.review_cycles, conf),
                        clock |-> now,
                        sources |-> stageSources(tlPr, SortReviews(tlReviews)),
                        calls |-> IF IsSome(tlResult) THEN 2 ELSE 1 ])
    /\ tlReviews' = SortReviews(tlReviews)
    /\ UNCHANGED <<now, tlPr, tlComments, serverVars, fnVars>>

\* A day passes between two calls.
TimelineTick ==
    /\ now \in ClockStart
    /\ now' = now + HoursPerDay
    /\ UNCHANGED <<tlVars, serverVars, fnVars>>

NextTimeline == TimelineCall \/ TimelineTick

vars == <<now, tlVars, serverVars, fnVars>>

SpecTimeline == InitTimeline /\ [][NextTimeline]_vars

(***************************************************************************)
(* The timeline harness on the days of a week: a PR created on January 1   *)
(* at 0h, up to MaxDayReviews reviews submitted on January 2, 3, 5 and 6,  *)
(* a merge on January 7 or none, last updated on January 7 or never since  *)
(* its creation; the reconstructor is called on January 8.                 *)
(***************************************************************************)
MaxDayReviews == 3

DayReviewTimes == {1 * HoursPerDay, 2 * HoursPerDay, 4 * HoursPerDay, 5 * HoursPerDay}
DayMergedTime == 6 * HoursPerDay
DayClock == 7 * HoursPerDay

DayPRs ==
    [ github_pr_number : {1},
      author : {"dev"},
      created_at : {0},
      updated_at : {0, DayMergedTime},
      merged_at : {None, Some(DayMergedTime)},
      status : {"open", "merged"} ]

DayReviewRecords ==
    [ reviewer_username : TlReviewers,
      review_state : ReviewStates,
      submitted_at : DayReviewTimes ]

InitTimelineDays ==
    /\ now = DayClock
    /\ tlPr \in DayPRs
    /\ tlReviews \in SeqsUpTo(DayReviewRecords, MaxDayReviews)
    /\ tlComments = <<>>
    /\ tlResult = None
    /\ tlLocals = None
    /\ pullRequests = <<>>
    /\ reviews = <<>>
    /\ comments = <<>>
    /\ commentCategorizationCache = None
    /\ fetchTasks = <<>>
    /\ catTasks = <<>>
    /\ postFetchTimer = FALSE
    /\ response = None
    /\ prsUpdated = None
    /\ SummariesOff
    /\ RateLimiterOff
    /\ FunctionsOff

NextTimelineDays == TimelineCall

SpecTimelineDays == InitTimelineDays /\ [][NextTimelineDays]_vars

(***************************************************************************)
(* Properties of the timeline reconstructor (SpecTimeline).                *)
(***************************************************************************)
TlCalled == IsSome(tlResult)
TlRes == Val(tlResult)
StageNames(stages) == [i \in 1..Len(stages) |-> stages[i].stage]
StageTimes(stages) == [i \in 1..Len(stages) |-> stages[i].timestamp]
NonDecreasing(ts) == \A i, j \in 1..Len(ts) : i < j => ts[i] <= ts[j]

NoInteraction == Len(tlReviews) = 0 /\ Len(tlComments) = 0

\* C8 as stated: a PR with zero reviews and zero comments, whatever its
\* status and merged_at, yields exactly the stage pr_raised, and is_completed
\* equals (status != open).
C8_SingleStageAlways ==
    (TlCalled /\ NoInteraction) =>
        /\ StageNames(TlRes.stages) = <<"pr_raised">>
        /\ TlRes.is_completed = (tlPr.status # "open")

\* C8 amended: with zero reviews and zero comments the stages are exactly
\* pr_raised when merged_at is null and exactly pr_raised, merged when
\* merged_at is set; is_completed equals (status != open) in both cases.
C8_StagesWithoutInteraction ==
    (TlCalled /\ NoInteraction) =>
        /\ StageNames(TlRes.stages) =
              IF IsSome(tlPr.merged_at) THEN <<"pr_raised", "merged">>
              ELSE <<"pr_raised">>
        /\ TlRes.stages[1].timestamp = tlPr.created_at
        /\ TlRes.is_completed = (tlPr.status # "open")

C8_Witness ==
    /\ TlCalled /\ NoInteraction
    /\ tlPr.status = "closed" /\ IsSome(tlPr.merged_at)
    /\ TlRes.is_completed

\* Well-ordered input: no review before created_at, updated_at and merged_at
\* not before created_at nor before any review.
WellOrdered ==
    /\ tlPr.updated_at >= tlPr.created_at
    /\ IsSome(tlPr.merged_at) => Val(tlPr.merged_at) >= tlPr.created_at
    /\ \A i \in 1..Len(tlReviews) :
          /\ tlReviews[i].submitted_at >= tlPr.created_at
          /\ tlPr.updated_at >= tlReviews[i].submitted_at
          /\ IsSome(tlPr.merged_at) =>
                Val(tlPr.merged_at) >= tlReviews[i].submitted_at

\* C9 as stated: for well-ordered input the stage timestamps are
\* non-decreasing in the order pr_raised, first_review, comments_fixed,
\* approved, merged.
C9_StagesNonDecreasing ==
    (TlCalled /\ WellOrdered) => NonDecreasing(StageTimes(TlRes.stages))

WithoutStage(stages, name) == SelectSeq(stages, LAMBDA s : s.stage # name)

HasOrderIssue(res, stage, prev) ==
    \E k \in 1..Len(res.validation.issues) :
        /\ res.validation.issues[k].kind = "out_of_order"
        /\ res.validation.issues[k].stage = stage
        /\ res.validation.issues[k].prev = prev

\* C9 amended: for well-ordered input the timestamps of pr_raised,
\* first_review, approved and merged are non-decreasing and comments_fixed is
\* not earlier than first_review and pr_raised; comments_fixed may be later
\* than the approved or the merged stage that follows it, and then the
\* validator reports that stage as occurring before its predecessor.
C9_OnlyCommentsFixedOutOfOrder ==
    (TlCalled /\ WellOrdered) =>
        LET stages == TlRes.stages
        IN  /\ NonDecreasing(StageTimes(WithoutStage(stages, "comments_fixed")))
            /\ \A i, j \in 1..Len(stages) :
                  (i < j /\ stages[j].stage = "comments_fixed")
                      => stages[i].timestamp <= stages[j].timestamp
            /\ \A i \in 1..Len(stages) :
                  (i > 1 /\ stages[i].timestamp < stages[i-1].timestamp)
                      => /\ stages[i-1].stage = "comments_fixed"
                         /\ HasOrderIssue(TlRes, stages[i].stage, "comments_fixed")

\* an approval followed by a later changes_requested that is resolved
C9_Witness ==
    /\ TlCalled /\ WellOrdered
    /\ ~NonDecreasing(StageTimes(TlRes.stages))
    /\ HasStage(TlRes.stages, "approved")
    /\ HasStage(TlRes.stages, "comments_fixed")

\* C10: whenever some pair of stages, adjacent or not, is out of order, the
\* issues contain an out-of-order issue and the confidence before clamping is
\* at least 0.3 below the value the validator started from.
C10_OutOfOrderReported ==
    (TlCalled /\ ~NonDecreasing(StageTimes(TlRes.stages))) =>
        /\ \E k \in 1..Len(TlRes.validation.issues) :
              TlRes.validation.issues[k].kind = "out_of_order"
        /\ DoubleGeq(DoubleSub(Val(tlLocals).confidenceScore, Double_0_3),
                     Val(tlLocals).adjustedConfidence)

\* a non-adjacent pair is out of order while the first two stages are in order
C10_Witness ==
    /\ TlCalled
    /\ Len(TlRes.stages) >= 3
    /\ TlRes.stages[1].timestamp <= TlRes.stages[2].timestamp
    /\ \E j \in 3..Len(TlRes.stages) :
          /\ TlRes.stages[j].timestamp < TlRes.stages[1].timestamp
          /\ TlRes.stages[j].timestamp < TlRes.stages[j-1].timestamp

\* The fields of a result that are computed from the clock.
WithoutClockFields(res) ==
    [res EXCEPT !.total_duration = 0,
                !.stage_durations.ongoing_time = 0,
                !.stage_durations.total_review_time = 0]

\* C11 as stated: a further call on the unchanged PR and arrays returns the
\* result of the call before it, in every field, whatever time has passed.
C11_Idempotent ==
    [][TlCalled => tlResult' = tlResult]_vars

\* C11: a further call returns the result of the call before it in every
\* field but total_duration, total_review_time and ongoing_time; these too
\* are the same when merged_at is set or the clock has not moved.
C11_IdempotentButClock ==
    [][TlCalled =>
          /\ WithoutClockFields(Val(tlResult')) = WithoutClockFields(TlRes)
          /\ (IsSome(tlPr.merged_at) \/ Val(tlLocals').clock = Val(tlLocals).clock)
                => tlResult' = tlResult]_vars

\* A second call a day after the first, on reviews the first call reordered.
C11_Witness ==
    /\ TlCalled
    /\ Val(tlLocals).calls = 2
    /\ Val(tlLocals).clock \notin ClockStart
    /\ ~IsSome(tlPr.merged_at)
    /\ Len(tlReviews) = 2
    /\ tlReviews[1].submitted_at = tlReviews[2].submitted_at
    /\ tlReviews[1].review_state # tlReviews[2].review_state

HasIssue(res, kind) ==
    \E k \in 1..Len(res.validation.issues) : res.validation.issues[k].kind = kind

UnresolvedCycles(res) ==
    {k \in 1..Len(res.review_cycles) :
        ~IsSome(res.review_cycles[k].changes_addressed_at)}

\* C12: a reconstruction with a review cycle that has no changes_addressed_at,
\* the last cycle or an earlier one, carries the unresolved-cycle issue, a
\* confidence score of at most 0.8 and a data quality of medium or low.
C12_UnresolvedCycleReported ==
    (TlCalled /\ UnresolvedCycles(TlRes) # {}) =>
        /\ HasIssue(TlRes, UnresolvedIssue.kind)
        /\ DoubleGeq(Double_0_8, TlRes.validation.confidence_score)
        /\ TlRes.validation.data_quality \in {"medium", "low"}

\* Two cycles, the earlier one unresolved.
C12_Witness ==
    /\ TlCalled
    /\ Len(TlRes.review_cycles) = 2
    /\ 1 \in UnresolvedCycles(TlRes)
    /\ TlRes.review_cycles[1].changes_requested_at
           < TlRes.review_cycles[2].changes_requested_at

StageDurationValues(res) ==
    { res.stage_durations.pr_raised_to_first_review,
      res.stage_durations.first_review_to_comments_fixed,
      res.stage_durations.comments_fixed_to_approved,
      res.stage_durations.approved_to_merged,
      res.stage_durations.ongoing_time,
      res.stage_durations.total_review_time }

StageDurationsFromPrevious(res) ==
    { Val(res.stages[i].duration_from_previous) :
          i \in {k \in 1..Len(res.stages) :
                    IsSome(res.stages[k].duration_from_previous)} }

ReportedDurations(res) ==
    StageDurationValues(res) \cup StageDurationsFromPrevious(res)
        \cup {res.total_duration}

\* C19: whenever a value of stage_durations, a stage's
\* duration_from_previous or total_duration is negative, validation.issues
\* holds at least one issue.
C19_NoSilentNegative ==
    TlCalled =>
        ((\E d \in ReportedDurations(TlRes) : d < 0) =>
            TlRes.validation.issues # <<>>)

TlSources == Val(tlLocals).sources

\* The sources are those of the stages of the result: stage k + 1 has the
\* timestamp of the `to` of source k and the duration from its `from`.
SourcesAgreeWithStages ==
    TlCalled =>
        /\ Len(TlRes.stages) = Len(TlSources) + 1
        /\ \A k \in 1..Len(TlSources) :
              LET stage == TlRes.stages[k + 1]
                  from == SourceTime(tlPr, tlReviews, TlSources[k].from)
                  to == SourceTime(tlPr, tlReviews, TlSources[k].to)
              IN  /\ stage.stage = TlSources[k].stage
                  /\ stage.timestamp = to
                  /\ stage.duration_from_previous = Some(calculateDaysDiff(from, to))

\* C20: the duration of a stage is never counted from a timestamp to the
\* same timestamp of the same record; in particular the approved stage is
\* never counted from the submitted_at of the review that supplies the
\* approval time.
C20_NoDurationFromItself ==
    TlCalled =>
        \A k \in 1..Len(TlSources) : TlSources[k].from # TlSources[k].to

RequestPositions ==
    {i \in 1..Len(tlReviews) : tlReviews[i].review_state = "changes_requested"}

\* The position of the j-th request.
RequestAt(j) ==
    CHOOSE i \in RequestPositions :
        Cardinality({k \in RequestPositions : k <= i}) = j

\* The times of the approved or commented reviews submitted after a time.
ResolutionsAfter(time) ==
    { tlReviews[k].submitted_at : k \in {i \in 1..Len(tlReviews) :
          /\ tlReviews[i].submitted_at > time
          /\ tlReviews[i].review_state \in {"approved", "commented"}} }

\* Scenario B: changes requested on January 2, a comment on January 5, an
\* approval on January 6, merged on January 7.
IsScenarioB ==
    /\ Len(tlReviews) = 3
    /\ { <<tlReviews[i].review_state, tlReviews[i].submitted_at>> : i \in 1..3 }
          = { <<"changes_requested", 1 * HoursPerDay>>,
              <<"commented", 4 * HoursPerDay>>,
              <<"approved", 5 * HoursPerDay>> }
    /\ tlPr.merged_at = Some(DayMergedTime)

\* C23: every changes_requested review opens exactly one cycle; the cycles
\* are numbered 1..n in the order of their requests; when an approved or
\* commented review was submitted after the request, changes_addressed_at
\* is the time of the earliest such review, duration_days the rounded days
\* between the two, and a changes_addressed event carries that time.
\* Scenario B gives one cycle of 3.0 days and approved_to_merged = 1.0.
C23_OneCyclePerRequest ==
    TlCalled =>
        /\ Len(TlRes.review_cycles) = Cardinality(RequestPositions)
        /\ \A j \in 1..Len(TlRes.review_cycles) :
              LET cycle == TlRes.review_cycles[j]
                  request == tlReviews[RequestAt(j)].submitted_at
                  resolutions == ResolutionsAfter(request)
              IN  /\ cycle.cycle_number = j
                  /\ cycle.changes_requested_at = request
                  /\ j > 1 => TlRes.review_cycles[j - 1].changes_requested_at
                                  <= request
                  /\ resolutions # {} =>
                        /\ cycle.changes_addressed_at = Some(Least(resolutions))
                        /\ cycle.duration_days =
                              MathRound((Least(resolutions) - request) * 10,
                                        HoursPerDay)
                        /\ \E e \in 1..Len(TlRes.actual_events) :
                              /\ TlRes.actual_events[e].event_type
                                    = "changes_addressed"
                              /\ TlRes.actual_events[e].timestamp
                                    = Least(resolutions)
        /\ IsScenarioB =>
              /\ Len(TlRes.review_cycles) = 1
              /\ TlRes.review_cycles[1].duration_days = 30
              /\ TlRes.stage_durations.approved_to_merged = 10

\* Scenario B has been reconstructed: the cycle is resolved by the comment.
C23_Witness ==
    /\ TlCalled
    /\ IsScenarioB
    /\ Val(tlLocals).calls = 1
    /\ TlRes.review_cycles[1].changes_addressed_at = Some(4 * HoursPerDay)

\* No approved or commented review was submitted after the j-th request.
UnresolvedByReview(j) ==
    ResolutionsAfter(tlReviews[RequestAt(j)].submitted_at) = {}

\* C24: when no approved or commented review follows a changes_requested
\* review, the cycle's changes_addressed_at is pr.updated_at iff updated_at
\* is strictly after the request, and null otherwise; when a resolving
\* review exists, changes_addressed_at is the time of a resolving review.
C24_UpdatedAtFallback ==
    TlCalled =>
        \A j \in 1..Len(TlRes.review_cycles) :
            LET cycle == TlRes.review_cycles[j]
                request == tlReviews[RequestAt(j)].submitted_at
            IN  IF UnresolvedByReview(j)
                THEN cycle.changes_addressed_at =
                        (IF tlPr.updated_at > request THEN Some(tlPr.updated_at)
                         ELSE None)
                ELSE /\ IsSome(cycle.changes_addressed_at)
                     /\ Val(cycle.changes_addressed_at) \in ResolutionsAfter(request)

\* A request with no resolving review and updated_at at the very time of
\* the request: the cycle stays unresolved.
C24_Witness ==
    /\ TlCalled
    /\ \E j \in 1..Len(TlRes.review_cycles) :
          /\ UnresolvedByReview(j)
          /\ tlPr.updated_at = TlRes.review_cycles[j].changes_requested_at
          /\ TlRes.review_cycles[j].changes_addressed_at = None
    /\ \E j \in 1..Len(TlRes.review_cycles) :
          /\ UnresolvedByReview(j)
          /\ TlRes.review_cycles[j].changes_addressed_at = Some(tlPr.updated_at)

(***************************************************************************)
(* Properties of the stages (SpecTimelineDays).                            *)
(***************************************************************************)
HasReviewIn(state) ==
    \E i \in 1..Len(tlReviews) : tlReviews[i].review_state = state

\* The names a reconstruction may list, in the order the code pushes them.
StageOrder == <<"pr_raised", "first_review", "comments_fixed", "approved", "merged">>

\* Scenario A: a single review, approved on January 3, and no merge.
IsScenarioA ==
    /\ Len(tlReviews) = 1
    /\ tlReviews[1].review_state = "approved"
    /\ tlReviews[1].submitted_at = 2 * HoursPerDay
    /\ tlPr.merged_at = None
    /\ tlPr.status = "open"

\* C25: pr_raised is always present; first_review is present iff there is a
\* review; comments_fixed iff there is a changes_requested review and the
\* last cycle is resolved; approved iff there is an approved review; merged
\* iff merged_at is not null; each stage is listed once, in this order.
\* Scenario A yields [pr_raised, first_review, approved],
\* pr_raised_to_first_review = 2.0 and is_completed = false.
C25_StagePresence ==
    TlCalled =>
        LET names == StageNames(TlRes.stages)
            Present(name) == \E k \in 1..Len(names) : names[k] = name
            cycles == TlRes.review_cycles
        IN  /\ names = SelectSeq(StageOrder, Present)
            /\ Present("pr_raised")
            /\ Present("first_review") <=> tlReviews # <<>>
            /\ Present("comments_fixed") <=>
                  /\ HasReviewIn("changes_requested")
                  /\ IsSome(cycles[Len(cycles)].changes_addressed_at)
            /\ Present("approved") <=> HasReviewIn("approved")
            /\ Present("merged") <=> IsSome(tlPr.merged_at)
            /\ IsScenarioA =>
                  /\ names = <<"pr_raised", "first_review", "approved">>
                  /\ TlRes.stage_durations.pr_raised_to_first_review = 20
                  /\ ~TlRes.is_completed

\* Scenario A has been reconstructed.
C25_Witness ==
    /\ TlCalled
    /\ IsScenarioA
    /\ Len(TlRes.stages) = 3

CyclesOf(res) == res.review_cycles

StagesNamed(res, name) == SelectSeq(res.stages, LAMBDA s : s.stage = name)

\* Two cycles with different resolution times, the last one resolved.
TwoResolutions ==
    /\ Len(CyclesOf(TlRes)) >= 2
    /\ IsSome(CyclesOf(TlRes)[1].changes_addressed_at)
    /\ IsSome(CyclesOf(TlRes)[Len(CyclesOf(TlRes))].changes_addressed_at)
    /\ CyclesOf(TlRes)[1].changes_addressed_at #
          CyclesOf(TlRes)[Len(CyclesOf(TlRes))].changes_addressed_at

\* C26: when a review cycle exists and the last cycle is resolved, the
\* comments_fixed stage carries the last cycle's changes_addressed_at, no
\* cycle was resolved later than that, and its duration is the distance from
\* the first_review stage; when the last cycle is unresolved there is no
\* comments_fixed stage.
C26_CommentsFixedIsLastResolution ==
    (TlCalled /\ Len(CyclesOf(TlRes)) > 0) =>
        LET cycles == CyclesOf(TlRes)
            last == cycles[Len(cycles)]
            fixed == StagesNamed(TlRes, "comments_fixed")
            first == StagesNamed(TlRes, "first_review")
        IN  IF IsSome(last.changes_addressed_at)
            THEN /\ Len(fixed) = 1
                 /\ Len(first) = 1
                 /\ fixed[1].timestamp = Val(last.changes_addressed_at)
                 /\ \A j \in 1..Len(cycles) :
                       IsSome(cycles[j].changes_addressed_at) =>
                          Val(cycles[j].changes_addressed_at) <= fixed[1].timestamp
                 /\ fixed[1].duration_from_previous =
                       Some(calculateDaysDiff(first[1].timestamp, fixed[1].timestamp))
                 /\ TlRes.stage_durations.first_review_to_comments_fixed =
                       calculateDaysDiff(first[1].timestamp, fixed[1].timestamp)
            ELSE Len(fixed) = 0

\* Two cycles resolved at different times have a comments_fixed stage.
C26_Witness ==
    /\ TlCalled
    /\ TwoResolutions
    /\ Len(StagesNamed(TlRes, "comments_fixed")) = 1

EventTimes(res) == [i \in 1..Len(res.actual_events) |-> res.actual_events[i].timestamp]

\* The input is well ordered: the PR was created before every review, was
\* updated and merged after every review, and the reviews are handed over in
\* the order of their submission.
WellOrderedInput ==
    /\ NonDecreasing([i \in 1..Len(tlReviews) |-> tlReviews[i].submitted_at])
    /\ \A i \in 1..Len(tlReviews) :
          /\ tlPr.created_at <= tlReviews[i].submitted_at
          /\ tlReviews[i].submitted_at <= tlPr.updated_at
          /\ IsSome(tlPr.merged_at) => tlReviews[i].submitted_at <= Val(tlPr.merged_at)
    /\ tlPr.created_at <= tlPr.updated_at
    /\ IsSome(tlPr.merged_at) => Val(tlPr.merged_at) <= tlPr.updated_at

\* C27: for well-ordered input the timestamps of actual_events never
\* decrease along the list, also when several changes_requested reviews are
\* resolved by the same later review.
C27_EventsOrdered ==
    (TlCalled /\ WellOrderedInput) => NonDecreasing(EventTimes(TlRes))

\* The orderings of an array of reviews.
Orderings(s) ==
    {[i \in 1..Len(s) |-> s[f[i]]] : f \in Permutations(1..Len(s))}

\* What a reconstruction reports about the reviews.
Reconstruction(res) ==
    [ stages |-> res.stages,
      stage_durations |-> res.stage_durations,
      review_cycles |-> res.review_cycles,
      actual_events |-> res.actual_events,
      validation |-> res.validation ]

\* C28: whatever the order in which the reviews are handed over, also when
\* several reviews share one submitted_at, calculateEnhancedPRTimeline
\* returns the same stages, stage durations, review cycles, events and
\* validation.
C28_ReviewsAreABag ==
    TlCalled =>
        \A other \in Orderings(tlReviews) :
            Reconstruction(calculateEnhancedPRTimeline(tlPr, other, tlComments,
                                                       Val(tlLocals).clock))
                = Reconstruction(TlRes)

\* Other discussion content for the same PR: every review may come from a
\* human or from a bot and carry a body, and the comments may be any.
OtherReviewers == {"alice", "dependabot[bot]"}
OtherBodies == {"", "LGTM"}

WithDiscussion(prReviews, names, body) ==
    [i \in 1..Len(prReviews) |->
        [ reviewer_username |-> names[i],
          review_state |-> prReviews[i].review_state,
          submitted_at |-> prReviews[i].submitted_at,
          content |-> body ]]

OtherRuns ==
    {calculateEnhancedPRTimeline(tlPr, WithDiscussion(tlReviews, names, body),
                                 prComments, Val(tlLocals).clock) :
        names \in [1..Len(tlReviews) -> OtherReviewers],
        body \in OtherBodies,
        prComments \in TlCommentArrays}

CycleTimes(res) ==
    [j \in 1..Len(res.review_cycles) |->
        [ cycle_number |-> res.review_cycles[j].cycle_number,
          changes_requested_at |-> res.review_cycles[j].changes_requested_at,
          changes_addressed_at |-> res.review_cycles[j].changes_addressed_at,
          duration_days |-> res.review_cycles[j].duration_days ]]

\* What must not depend on the discussion content.
StateTransitions(res) ==
    [ stages |-> res.stages,
      stage_durations |-> res.stage_durations,
      milestones |-> res.milestones,
      cycles |-> CycleTimes(res),
      validation |-> res.validation ]

\* C29: a run that differs only in the comments, in the review bodies or in
\* the reviewer names (human or bot) returns the same stages, stage
\* durations, milestones, review-cycle timestamps and validation.
C29_NonInterference ==
    TlCalled =>
        \A other \in OtherRuns : StateTransitions(other) = StateTransitions(TlRes)

\* A PR with a review cycle has been reconstructed, and a run with other
\* reviewer names reports other events.
C29_Witness ==
    /\ TlCalled
    /\ Len(TlRes.review_cycles) > 0
    /\ \E other \in OtherRuns : other.actual_events # TlRes.actual_events

\* C37: in every result the three conditions coincide: validation.issues is
\* empty, validation.confidence_score is 1, validation.data_quality is high;
\* and a result that is not valid has data_quality low.
C37_ValidationCoherent ==
    IsSome(tlResult) =>
        LET v == Val(tlResult).validation
        IN  /\ (v.issues = <<>>) <=> (v.confidence_score = DoubleOne)
            /\ (v.issues = <<>>) <=> (v.data_quality = "high")
            /\ (~v.is_valid) => (v.data_quality = "low")

\* A result that is not valid: it has issues, a confidence below 1 and low
\* quality.
C37_Witness ==
    /\ IsSome(tlResult)
    /\ ~Val(tlResult).validation.is_valid
    /\ Val(tlResult).validation.issues # <<>>
    /\ Val(tlResult).validation.confidence_score # DoubleOne
    /\ Val(tlResult).validation.data_quality = "low"

\* The position of a stage name in the canonical order.
StageRank(name) == CHOOSE k \in 1..Len(StageOrder) : StageOrder[k] = name

\* C38: the stage list starts with pr_raised at created_at, holds each stage
\* name at most once, and lists the stages in the order pr_raised,
\* first_review, comments_fixed, approved, merged, by list position and
\* whatever their timestamps are.
C38_CanonicalStageOrder ==
    TlCalled =>
        LET stages == TlRes.stages
        IN  /\ Len(stages) >= 1
            /\ stages[1].stage = "pr_raised"
            /\ stages[1].timestamp = tlPr.created_at
            /\ \A i \in 1..Len(stages) :
                  \E k \in 1..Len(StageOrder) : StageOrder[k] = stages[i].stage
            /\ \A i, j \in 1..Len(stages) :
                  i < j => StageRank(stages[i].stage) < StageRank(stages[j].stage)

\* All five stages are listed, and the merge is dated before the approval
\* that precedes it in the list.
C38_Witness ==
    /\ TlCalled
    /\ StageNames(TlRes.stages) = StageOrder
    /\ TlRes.stages[5].timestamp < TlRes.stages[4].timestamp

\* An approved or commented review was submitted at exactly time t.
ResolvingReviewAt(t) ==
    \E i \in 1..Len(tlReviews) :
        /\ tlReviews[i].submitted_at = t
        /\ tlReviews[i].review_state \in {"approved", "commented"}

\* C39: for every review cycle changes_addressed_at is null or strictly later
\* than changes_requested_at, duration_days is not negative, and an
\* unresolved cycle has duration_days 0; when the only reviews that could
\* resolve a cycle were submitted at or before the request and the PR was
\* not updated since, the cycle is unresolved.
C39_ResolvedStrictlyLater ==
    TlCalled =>
        \A j \in 1..Len(TlRes.review_cycles) :
            LET cycle == TlRes.review_cycles[j]
                request == cycle.changes_requested_at
            IN  /\ IsSome(cycle.changes_addressed_at) =>
                      Val(cycle.changes_addressed_at) > request
                /\ cycle.duration_days >= 0
                /\ ~IsSome(cycle.changes_addressed_at) => cycle.duration_days = 0
                /\ (/\ \A i \in 1..Len(tlReviews) :
                          tlReviews[i].review_state \in {"approved", "commented"}
                              => tlReviews[i].submitted_at <= request
                    /\ tlPr.updated_at <= request)
                      => cycle.changes_addressed_at = None

\* A cycle stays unresolved although an approval was submitted at the very
\* time of its request.
C39_Witness ==
    /\ TlCalled
    /\ \E j \in 1..Len(TlRes.review_cycles) :
          /\ TlRes.review_cycles[j].changes_addressed_at = None
          /\ TlRes.review_cycles[j].duration_days = 0
          /\ ResolvingReviewAt(TlRes.review_cycles[j].changes_requested_at)

(***************************************************************************)
(* The validator harness: stages, review cycles, the issues and the        *)
(* confidence of the caller are drawn from the domains below and           *)
(* validateTimeline is applied to them.                                    *)
(***************************************************************************)
MaxStages == 3
MaxCycles == 2

ValStages ==
    [ stage : {"first_review"},
      timestamp : {0, 1},
      duration_from_previous :
          {None, Some(0 - 10), Some(0), Some(10), Some(310)} ]

ValCycles ==
    [ cycle_number : {1},
      changes_requested_at : {0},
      changes_addressed_at : {None},
      duration_days : {0, 150},
      reviewer : {"alice"} ]

ValIssues == { [k \in 1..n |-> UnresolvedIssue] : n \in {0, 1, 2, 4} }

\* 1.0, 1.0 - 0.2 (one unresolved cycle) and 1.5
ValConfidences ==
    { DoubleOne, DoubleSub(DoubleOne, Double_0_2), Double(FALSE, <<0, 0, 0, 6144>>) }

ValArgs ==
    [ stages : SeqsUpTo(ValStages, MaxStages),
      reviewCycles : SeqsUpTo(ValCycles, MaxCycles),
      issues : ValIssues,
      confidenceScore : ValConfidences ]

InitValidator ==
    /\ now = 0
    /\ tlPr = None
    /\ tlReviews = <<>>
    /\ tlComments = <<>>
    /\ tlResult = None
    /\ tlLocals = None
    /\ pullRequests = <<>>
    /\ reviews = <<>>
    /\ comments = <<>>
    /\ commentCategorizationCache = None
    /\ fetchTasks = <<>>
    /\ catTasks = <<>>
    /\ postFetchTimer = FALSE
    /\ response = None
    /\ prsUpdated = None
    /\ SummariesOff
    /\ RateLimiterOff
    /\ fnArgs \in {Some(args) : args \in ValArgs}
    /\ fnResults = <<>>
    /\ regexLastIndex = <<>>

\* `const additionalIssues = [...issues]`: the issues are pushed onto a copy,
\* the array of the caller stays as it is.
ValidateCall ==
    /\ fnResults = <<>>
    /\ LET args == Val(fnArgs)
       IN  fnResults' = <<validateTimeline(args.stages, <<>>, args.reviewCycles,
                                           args.issues, args.confidenceScore)>>
    /\ UNCHANGED <<now, fnArgs, regexLastIndex, tlVars, serverVars>>

NextValidator == ValidateCall

SpecValidator == InitValidator /\ [][NextValidator]_vars

(***************************************************************************)
(* Properties of the validator (SpecValidator).                            *)
(***************************************************************************)
ValCalled == fnResults # <<>>
ValArg == Val(fnArgs)
ValRes == fnResults[1]

\* The tier and the validity the rules give for a confidence and a number
\* of issues.
TierOf(confidence, issueCount) ==
    IF ~DoubleLess(confidence, Double_0_8) /\ issueCount = 0 THEN "high"
    ELSE IF ~DoubleLess(confidence, Double_0_6) /\ issueCount <= 2 THEN "medium"
    ELSE "low"

ValidOf(confidence, issueCount) ==
    ~DoubleLess(confidence, Double_0_5) /\ issueCount < 5

\* C15: data_quality is high iff the confidence is at least 0.8 and there is
\* no issue, medium iff it is not high, the confidence is at least 0.6 and
\* there are at most two issues, low otherwise; is_valid iff the confidence
\* is at least 0.5 and there are fewer than five issues; and the rules give
\* the same tier and validity on the clamped confidence_score that is
\* reported as on the confidence before the clamp.
C15_TierAndValidity ==
    ValCalled =>
        LET before == adjustedConfidence(ValArg.stages, ValArg.reviewCycles,
                                         ValArg.confidenceScore)
            count == Len(ValRes.issues)
        IN  /\ ValRes.data_quality = TierOf(before, count)
            /\ ValRes.is_valid = ValidOf(before, count)
            /\ ValRes.data_quality = TierOf(ValRes.confidence_score, count)
            /\ ValRes.is_valid = ValidOf(ValRes.confidence_score, count)

\* A call whose confidence the clamp changes, with a tier that is not low.
C15_Witness ==
    /\ ValCalled
    /\ DoubleLess(DoubleOne, ValArg.confidenceScore)
    /\ ValRes.confidence_score = DoubleOne
    /\ ValRes.data_quality = "medium"
    /\ ValRes.is_valid

\* The double nearest to n/100, for n = 0 or n >= 5: the long division of
\* n * 2^57 by 100, rounded to 53 significant bits, ties to even.
NearestDouble(n) ==
    LET d4 == n * 4096
        d3 == (d4 % 100) * LimbBase
        d2 == (d3 % 100) * LimbBase
        d1 == (d2 % 100) * LimbBase
        mag == <<d1 \div 100, d2 \div 100, d3 \div 100, d4 \div 100>>
        quantum == Pow2(ExcessBits(mag[4]))
        rest == 100 * (mag[1] % quantum) + (d1 % 100)
        down == MagSub(mag, <<mag[1] % quantum, 0, 0, 0>>)
        up == MagAdd(down, <<quantum, 0, 0, 0>>)
        odd == (mag[1] \div quantum) % 2 = 1
    IN  Double(FALSE,
               IF 2 * rest < 100 * quantum THEN down
               ELSE IF 2 * rest > 100 * quantum THEN up
               ELSE IF odd THEN up ELSE down)

\* The hundredths a confidence of the caller stands for.
HundredthsOf(confidence) ==
    CHOOSE n \in {80, 100, 150} : NearestDouble(n) = confidence

OutOfOrderPairs(stages) ==
    Cardinality({i \in 2..Len(stages) :
                    stages[i].timestamp < stages[i-1].timestamp})

NegativeDurations(stages) ==
    Cardinality({i \in 1..Len(stages) :
                    /\ IsSome(stages[i].duration_from_previous)
                    /\ Val(stages[i].duration_from_previous) < 0})

LongDurations(stages) ==
    Cardinality({i \in 1..Len(stages) :
                    /\ IsSome(stages[i].duration_from_previous)
                    /\ Val(stages[i].duration_from_previous) > 30 * 10})

LongCycles(reviewCycles) ==
    Cardinality({i \in 1..Len(reviewCycles) :
                    reviewCycles[i].duration_days > 14 * 10})

\* prior - 0.3 a - 0.2 b - 0.1 c - 0.05 d in hundredths, clamped to [0, 1]
ExpectedHundredths(args) ==
    LET exact == HundredthsOf(args.confidenceScore)
                    - 30 * OutOfOrderPairs(args.stages)
                    - 20 * NegativeDurations(args.stages)
                    - 10 * LongDurations(args.stages)
                    - 5 * LongCycles(args.reviewCycles)
    IN  IF exact < 0 THEN 0 ELSE IF exact > 100 THEN 100 ELSE exact

PenaltyCount(args) ==
    OutOfOrderPairs(args.stages) + NegativeDurations(args.stages)
        + LongDurations(args.stages) + LongCycles(args.reviewCycles)

\* The returned confidence_score lies in [0, 1]; the returned issues are
\* the issues of the caller followed by one issue per penalty; the array of
\* the caller is left as it was.
ValRangeAndIssues ==
    /\ ValCalled =>
          /\ ~DoubleLess(ValRes.confidence_score, DoubleZero)
          /\ ~DoubleLess(DoubleOne, ValRes.confidence_score)
          /\ Len(ValRes.issues) = Len(ValArg.issues) + PenaltyCount(ValArg)
          /\ SubSeq(ValRes.issues, 1, Len(ValArg.issues)) = ValArg.issues

\* C16: the confidence_score validateTimeline returns lies in [0, 1] and is
\* clamp(prior - 0.3 a - 0.2 b - 0.1 c - 0.05 d), for a adjacent pairs of
\* stages out of order, b stages of negative duration, c stages longer than
\* 30 days and d cycles longer than 14 days; the returned issues are the
\* issues of the caller followed by one issue per penalty.
C16_ConfidenceFormula ==
    /\ ValRangeAndIssues
    /\ ValCalled =>
          ValRes.confidence_score = NearestDouble(ExpectedHundredths(ValArg))

\* What C16 promises of validity: a timeline whose confidence by the formula
\* is at least 0.5, with fewer than five issues, is valid.
C16_ValidAtHalf ==
    (/\ ValCalled
     /\ ExpectedHundredths(ValArg) >= 50
     /\ Len(ValRes.issues) < 5) => ValRes.is_valid

\* The literals of the source are the doubles nearest to their decimals.
NearestDoubleOfLiterals ==
    /\ NearestDouble(100) = DoubleOne
    /\ NearestDouble(30) = Double_0_3
    /\ NearestDouble(20) = Double_0_2
    /\ NearestDouble(10) = Double_0_1
    /\ NearestDouble(5) = Double_0_05
    /\ NearestDouble(80) = Double_0_8
    /\ NearestDouble(60) = Double_0_6
    /\ NearestDouble(50) = Double_0_5
    /\ NearestDouble(0) = DoubleZero
    /\ NearestDouble(45).mag = <<26216, 19660, 6553, 1843>>
    /\ NearestDouble(95).mag = <<26208, 19660, 6553, 3891>>

(***************************************************************************)
(* Strings.  A string is the sequence of its UTF-16 code units: an ASCII   *)
(* unit is written as itself, any other unit as "uXXXX".                   *)
(***************************************************************************)
Units(str) == [i \in 1..Len(str) |-> SubSeq(str, i, i)]

UpperCaseLetters == Units("ABCDEFGHIJKLMNOPQRSTUVWXYZ") \o <<"u00dc", "u00d1">>
LowerCaseLetters == Units("abcdefghijklmnopqrstuvwxyz") \o <<"u00fc", "u00f1">>

\* String.prototype.toLowerCase, and the folding of the regex flag /i.
toLowerCase(s) ==
    [i \in 1..Len(s) |->
        IF \E k \in 1..Len(UpperCaseLetters) : UpperCaseLetters[k] = s[i]
        THEN LowerCaseLetters[CHOOSE k \in 1..Len(UpperCaseLetters) :
                                  UpperCaseLetters[k] = s[i]]
        ELSE s[i]]

StartsWith(s, prefix) ==
    /\ Len(prefix) <= Len(s)
    /\ SubSeq(s, 1, Len(prefix)) = prefix

EndsWith(s, suffix) ==
    /\ Len(suffix) <= Len(s)
    /\ SubSeq(s, Len(s) - Len(suffix) + 1, Len(s)) = suffix

\* The class \s of a regular expression, which String.prototype.trim strips.
WhiteSpace == {" ", "\t", "\n", "\r", "\f", "u00a0"}

RECURSIVE trimStart(_)
trimStart(s) ==
    IF s # <<>> /\ Head(s) \in WhiteSpace THEN trimStart(Tail(s)) ELSE s

RECURSIVE trimEnd(_)
trimEnd(s) ==
    IF s # <<>> /\ s[Len(s)] \in WhiteSpace
    THEN trimEnd(SubSeq(s, 1, Len(s) - 1))
    ELSE s

trim(s) == trimEnd(trimStart(s))

(***************************************************************************)
(* Bot detection (index.ts, BOT_PATTERNS, AUTOMATED_CONTENT_PATTERNS and   *)
(* isHumanComment).                                                        *)
(***************************************************************************)
\* /\[bot\]$/i, /bot$/i, /-bot$/i
BOT_SUFFIXES == << Units("[bot]"), Units("bot"), Units("-bot") >>

BOT_NAMES ==
    << Units("semanticdiff-com[bot]"),
       Units("coderabbitai[bot]"),
       Units("dependabot[bot]"),
       Units("github-actions[bot]"),
       Units("renovate[bot]"),
       Units("codecov[bot]"),
       Units("sonarcloud[bot]"),
       Units("snyk-bot"),
       Units("whitesource-bolt[bot]"),
       Units("deepsource-autofix[bot]"),
       Units("gitguardian[bot]"),
       Units("circleci-bot"),
       Units("travis-ci"),
       Units("jenkins-bot"),
       Units("azure-pipelines[bot]"),
       Units("lgtm-com[bot]"),
       Units("codeclimate[bot]"),
       Units("houndci-bot"),
       Units("vercel[bot]"),
       Units("netlify[bot]"),
       Units("heroku[bot]") >>

\* The case folding of the patterns, done once.
FoldAll(patterns) == [k \in 1..Len(patterns) |-> toLowerCase(patterns[k])]
BotSuffixesFolded == FoldAll(BOT_SUFFIXES)
BotNamesFolded == FoldAll(BOT_NAMES)

BOT_PATTERNS(author) ==
    LET folded == toLowerCase(author)
    IN  \/ \E k \in 1..Len(BotSuffixesFolded) :
              EndsWith(folded, BotSuffixesFolded[k])
        \/ \E k \in 1..Len(BotNamesFolded) : folded = BotNamesFolded[k]

\* /^Review changes with\s+SemanticDiff/i
SemanticDiffPattern(text) ==
    LET lead == Units("Review changes with")
        rest == SubSeq(text, Len(lead) + 1, Len(text))
    IN  /\ StartsWith(toLowerCase(text), toLowerCase(lead))
        /\ rest # <<>>
        /\ Head(rest) \in WhiteSpace
        /\ StartsWith(toLowerCase(trimStart(rest)),
                      toLowerCase(Units("SemanticDiff")))

\* The other patterns are /^<prefix>/i.
AUTOMATED_PREFIXES ==
    << Units("Changed Files"),
       Units("Coverage report"),
       Units("Build Status:"),
       Units("Deploy Preview"),
       Units("This pull request"),
       Units("Automated merge"),
       Units("**Summary** by CodeRabbit"),
       Units("## Summary by Coderabbit"),
       Units("## Summary by CodeRabbit"),
       <<"uf8ff", "u00fc", "u00a7", "u00f1">> \o Units(" This is an automated"),
       Units("Dependency update"),
       Units("Security update"),
       Units("Auto-generated"),
       Units("Automatically generated") >>

AutomatedPrefixesFolded == FoldAll(AUTOMATED_PREFIXES)

\* the prefixes looked for anywhere in the body
AUTOMATED_CONTENT_PATTERNS_Unanchored(text) ==
    LET folded == toLowerCase(text)
    IN  \E i \in 1..Len(folded) : \E k \in 1..Len(AutomatedPrefixesFolded) :
            StartsWith(SubSeq(folded, i, Len(folded)), AutomatedPrefixesFolded[k])

AUTOMATED_CONTENT_PATTERNS(text) ==
    LET folded == toLowerCase(text)
    IN  \/ SemanticDiffPattern(text)
        \/ \E k \in 1..Len(AutomatedPrefixesFolded) :
              StartsWith(folded, AutomatedPrefixesFolded[k])

\* The alternatives of the status pattern /^(...)\s/, as the source file
\* spells them.
STATUS_GLYPHS ==
    << <<"u201a", "u00fa", "u00d6">>,
       <<"u201a", "u00f9", "u00e5">>,
       <<"uf8ff", "u00fc", "u00ee", "u00d1">>,
       <<"u201a", "u00f6", "u2020", "u00d4", "u220f", "u00e8">>,
       <<"uf8ff", "u00fc", "u00f6", "u00c4">>,
       <<"uf8ff", "u00fc", "u00ec", "u00b6">>,
       <<"uf8ff", "u00fc", "u00ee", "u00df">> >>

StatusGlyphPattern(text) ==
    \E k \in 1..Len(STATUS_GLYPHS) :
        /\ StartsWith(text, STATUS_GLYPHS[k])
        /\ Len(text) > Len(STATUS_GLYPHS[k])
        /\ text[Len(STATUS_GLYPHS[k]) + 1] \in WhiteSpace

MinHumanLength == 10

isHumanComment(comment) ==
    IF BOT_PATTERNS(comment.author) THEN FALSE
    ELSE IF AUTOMATED_CONTENT_PATTERNS(trim(comment.content)) THEN FALSE
    ELSE IF Len(comment.content) < MinHumanLength THEN FALSE
    ELSE IF StatusGlyphPattern(comment.content) THEN FALSE
    ELSE TRUE

(***************************************************************************)
(* The RegExp objects.  The regular expressions of BOT_PATTERNS and        *)
(* AUTOMATED_CONTENT_PATTERNS are created once, when the module loads, and *)
(* every call of isHumanComment applies .test() to the same objects; an    *)
(* object carries lastIndex from one call to the next.  The status pattern *)
(* of line 355 is a literal inside the function: a new object per call.    *)
(***************************************************************************)
\* a pattern with the flag g (or y)
RegExpGlobal_Set == TRUE

\* None of the literals has the flag g or y: their flags are "i".
RegExpGlobal == FALSE

\* RegExp.prototype.test on an object whose lastIndex is lastIndex, given
\* the leftmost match of its pattern in the text (<<>> if there is none).
RegExpTest(lastIndex, match) ==
    IF ~RegExpGlobal
    THEN [result |-> IsSome(match), lastIndex |-> lastIndex]
    ELSE IF IsSome(match) /\ Val(match).start >= lastIndex
    THEN [result |-> TRUE, lastIndex |-> Val(match).end]
    ELSE [result |-> FALSE, lastIndex |-> 0]

\* /<suffix>$/i
SuffixMatch(text, suffixFolded) ==
    IF EndsWith(toLowerCase(text), suffixFolded)
    THEN Some([start |-> Len(text) - Len(suffixFolded), end |-> Len(text)])
    ELSE None

\* /^<prefix>/i
PrefixMatch(text, prefixFolded) ==
    IF StartsWith(toLowerCase(text), prefixFolded)
    THEN Some([start |-> 0, end |-> Len(prefixFolded)])
    ELSE None

SemanticDiffMatch(text) ==
    IF SemanticDiffPattern(text)
    THEN LET lead == Len(Units("Review changes with"))
             rest == SubSeq(text, lead + 1, Len(text))
         IN  Some([start |-> 0,
                   end |-> Len(text) - Len(trimStart(rest))
                              + Len(Units("SemanticDiff"))])
    ELSE None

\* The matches of the three regular expressions of BOT_PATTERNS in an author
\* and of the fifteen of AUTOMATED_CONTENT_PATTERNS in a body.
BotMatches(author) ==
    [k \in 1..Len(BotSuffixesFolded) |-> SuffixMatch(author, BotSuffixesFolded[k])]

ContentMatches(text) ==
    <<SemanticDiffMatch(text)>>
    \o [k \in 1..Len(AutomatedPrefixesFolded) |->
           PrefixMatch(text, AutomatedPrefixesFolded[k])]

RegExpCount == Len(BOT_SUFFIXES) + 1 + Len(AUTOMATED_PREFIXES)

\* Array.prototype.some(pattern => pattern.test(text)) over the objects at
\* offset + 1, offset + 2, ...: it stops at the first that matches.
RECURSIVE SomeRegExp(_, _, _, _)
SomeRegExp(matches, k, offset, lastIndexes) ==
    IF k > Len(matches) THEN [result |-> FALSE, lastIndexes |-> lastIndexes]
    ELSE LET test == RegExpTest(lastIndexes[offset + k], matches[k])
             after == [lastIndexes EXCEPT ![offset + k] = test.lastIndex]
         IN  IF test.result THEN [result |-> TRUE, lastIndexes |-> after]
             ELSE SomeRegExp(matches, k + 1, offset, after)

\* One call of isHumanComment on the objects as the calls before left them:
\* the label, and the objects as it leaves them.  In BOT_PATTERNS the
\* regular expressions come before the names.
isHumanCommentCall(comment, lastIndexes) ==
    LET byRegExp == SomeRegExp(BotMatches(comment.author), 1, 0, lastIndexes)
        byName == \E k \in 1..Len(BotNamesFolded) :
                      toLowerCase(comment.author) = BotNamesFolded[k]
        byContent == SomeRegExp(ContentMatches(trim(comment.content)), 1,
                                Len(BOT_SUFFIXES), byRegExp.lastIndexes)
    IN  IF byRegExp.result \/ byName
        THEN [label |-> FALSE, lastIndexes |-> byRegExp.lastIndexes]
        ELSE IF byContent.result
        THEN [label |-> FALSE, lastIndexes |-> byContent.lastIndexes]
        ELSE [label |-> /\ Len(comment.content) >= MinHumanLength
                        /\ ~StatusGlyphPattern(comment.content),
              lastIndexes |-> byContent.lastIndexes]

(***************************************************************************)
(* The classifier harness: a comment is drawn from the authors and bodies  *)
(* below and classified MaxCalls times.                                    *)
(***************************************************************************)
MaxCalls == 2

ClsAuthors ==
    { Units("alice"), Units("robot"), Units("my-bot"), Units("codecov[bot]"),
      Units("CodeCov[BOT]"), Units("travis-ci"), Units("Travis-CI"),
      Units("travis-ci2") }

ClsBodies ==
    { Units("[bot] Coverage report: 92%"),
      Units("Coverage report: 92%"),
      Units("  coverage REPORT: 92%"),
      Units("Review changes with  SemanticDiff"),
      Units("Please fix the coverage report"),
      Units("LGTM"),
      Units("          "),
      <<"u201a", "u00fa", "u00d6">> \o Units(" all checks passed"),
      <<>> }

ClsComments == [author : ClsAuthors, content : ClsBodies]

InitClassifier ==
    /\ now = 0
    /\ pullRequests = <<>>
    /\ reviews = <<>>
    /\ comments = <<>>
    /\ commentCategorizationCache = None
    /\ fetchTasks = <<>>
    /\ catTasks = <<>>
    /\ postFetchTimer = FALSE
    /\ response = None
    /\ prsUpdated = None
    /\ SummariesOff
    /\ RateLimiterOff
    /\ tlPr = None
    /\ tlReviews = <<>>
    /\ tlComments = <<>>
    /\ tlResult = None
    /\ tlLocals = None
    /\ fnArgs \in {Some(comment) : comment \in ClsComments}
    /\ fnResults = <<>>
    /\ regexLastIndex = [k \in 1..RegExpCount |-> 0]

ClassifyCall ==
    /\ Len(fnResults) < MaxCalls
    /\ LET call == isHumanCommentCall(Val(fnArgs), regexLastIndex)
       IN  /\ fnResults' = Append(fnResults, call.label)
           /\ regexLastIndex' = call.lastIndexes
    /\ UNCHANGED <<now, fnArgs, tlVars, serverVars>>

NextClassifier == ClassifyCall

SpecClassifier == InitClassifier /\ [][NextClassifier]_vars

(***************************************************************************)
(* Properties of the classifier (SpecClassifier).                          *)
(***************************************************************************)
ClsComment == Val(fnArgs)

OnAllowlist(author) ==
    \E k \in 1..Len(BOT_NAMES) : toLowerCase(author) = toLowerCase(BOT_NAMES[k])

\* C13: every call of isHumanComment on a comment returns the label of the
\* calls before it, which is the label the rules give on fresh objects, and
\* a comment whose author is on the allowlist, in any case, is never
\* labelled human, whatever its body.
C13_DeterministicAllowlist ==
    /\ \A i \in 1..Len(fnResults) :
          /\ fnResults[i] = fnResults[1]
          /\ fnResults[i] = isHumanComment(ClsComment)
    /\ OnAllowlist(ClsComment.author) =>
          \A i \in 1..Len(fnResults) : fnResults[i] = FALSE

\* A second call on an author that only the name list catches, with a body
\* that would pass for human.
C13_Witness ==
    /\ Len(fnResults) = MaxCalls
    /\ ClsComment.author = Units("Travis-CI")
    /\ ClsComment.content = Units("Please fix the coverage report")
    /\ fnResults[MaxCalls] = FALSE

ScenarioD ==
    [author |-> Units("codecov[bot]"),
     content |-> Units("[bot] Coverage report: 92%")]

AuthorRule(comment) == BOT_PATTERNS(comment.author)
ContentRule(comment) == AUTOMATED_CONTENT_PATTERNS(trim(comment.content))

\* C14 as stated: on the comment of scenario D both the author rule and the
\* content rule match, and the body of scenario D is labelled automated
\* whoever its author is.
C14_BothRulesMatch ==
    /\ (fnResults # <<>> /\ ClsComment = ScenarioD) =>
          AuthorRule(ClsComment) /\ ContentRule(ClsComment)
    /\ (fnResults # <<>> /\ ClsComment.content = ScenarioD.content) =>
          fnResults[1] = FALSE

\* C14: on the comment of scenario D the author rule matches and the content
\* rule does not, the body beginning with "[bot]"; the comment is labelled
\* automated, and the same body from an author no author rule matches is
\* labelled human.
C14_AuthorRuleOnly ==
    /\ (fnResults # <<>> /\ ClsComment = ScenarioD) =>
          /\ AuthorRule(ClsComment)
          /\ ~ContentRule(ClsComment)
          /\ fnResults[1] = FALSE
    /\ (fnResults # <<>> /\ ClsComment.content = ScenarioD.content) =>
          /\ ~ContentRule(ClsComment)
          /\ fnResults[1] = ~AuthorRule(ClsComment)

\* The body of scenario D from an author that is not a bot.
C14_Witness ==
    /\ fnResults # <<>>
    /\ ClsComment.content = ScenarioD.content
    /\ ClsComment.author = Units("alice")
    /\ fnResults[1] = TRUE

\* C30: every comment whose trimmed body is shorter than 10 characters is
\* labelled bot/noise, also when the untrimmed body has 10 or more characters
\* because of leading or trailing white space.
C30_TrimmedLengthHeuristic ==
    (fnResults # <<>> /\ Len(trim(ClsComment.content)) < MinHumanLength) =>
        fnResults[1] = FALSE

(***************************************************************************)
(* determineAnalysisStrategy                                               *)
(***************************************************************************)
\* review.content || '' : a review without a body is classified on ''
\* the reviewer decides, whatever the body of the review
isHumanReview_ReviewerOnly(review) ==
    isHumanComment([author |-> review.reviewer_username,
                    content |-> Units("a review body")])

isHumanReview(review) ==
    isHumanComment([author |-> review.reviewer_username,
                    content |-> Val(OrElse(review.content, Some(<<>>)))])

Strategy(type, level, humanComments, botComments, humanReviews, botReviews) ==
    [ type |-> type,
      human_comments |-> Len(humanComments),
      bot_comments |-> Len(botComments),
      human_reviews |-> Len(humanReviews),
      bot_reviews |-> Len(botReviews),
      confidence_level |-> level ]

\* without the test `humanReviews.length >= 2`
determineAnalysisStrategy_InteractionsOnly(allComments, allReviews) ==
    LET humanComments == SelectSeq(allComments, isHumanComment)
        botComments == SelectSeq(allComments, LAMBDA c : ~isHumanComment(c))
        humanReviews == SelectSeq(allReviews, isHumanReview)
        botReviews == SelectSeq(allReviews, LAMBDA r : ~isHumanReview(r))
        totalHumanInteractions == Len(humanComments) + Len(humanReviews)
    IN  IF totalHumanInteractions = 0
        THEN Strategy("code_only", "medium",
                      humanComments, botComments, humanReviews, botReviews)
        ELSE IF totalHumanInteractions >= 5
        THEN Strategy("human_discussion", "high",
                      humanComments, botComments, humanReviews, botReviews)
        ELSE Strategy("hybrid", "medium",
                      humanComments, botComments, humanReviews, botReviews)

\* lines 394-426: the strategy from the four filtered arrays
strategyOf(humanComments, botComments, humanReviews, botReviews) ==
    LET totalHumanInteractions == Len(humanComments) + Len(humanReviews)
    IN  IF totalHumanInteractions = 0
        THEN Strategy("code_only", "medium",
                      humanComments, botComments, humanReviews, botReviews)
        ELSE IF totalHumanInteractions >= 5 \/ Len(humanReviews) >= 2
        THEN Strategy("human_discussion", "high",
                      humanComments, botComments, humanReviews, botReviews)
        ELSE Strategy("hybrid", "medium",
                      humanComments, botComments, humanReviews, botReviews)

determineAnalysisStrategy(allComments, allReviews) ==
    strategyOf(SelectSeq(allComments, isHumanComment),
               SelectSeq(allComments, LAMBDA c : ~isHumanComment(c)),
               SelectSeq(allReviews, isHumanReview),
               SelectSeq(allReviews, LAMBDA r : ~isHumanReview(r)))

(***************************************************************************)
(* The strategy harness: the comments and the reviews of a PR are drawn    *)
(* from the domains below and determineAnalysisStrategy is applied.        *)
(***************************************************************************)
MaxStrategyComments == 4
MaxStrategyReviews == 2

StrategyComments ==
    { [author |-> Units("alice"), content |-> Units("Please fix it")],
      [author |-> Units("my-bot"), content |-> Units("Please fix it")],
      [author |-> Units("alice"), content |-> Units("Coverage report: 92%")],
      [author |-> Units("alice"), content |-> Units("ok")] }

StrategyReviews ==
    { [reviewer_username |-> Units("alice"), content |-> Some(Units("Please fix it"))],
      [reviewer_username |-> Units("alice"), content |-> None],
      [reviewer_username |-> Units("codecov[bot]"),
       content |-> Some(Units("Please fix it"))] }

StrategyArgs ==
    [ comments : SeqsUpTo(StrategyComments, MaxStrategyComments),
      reviews : SeqsUpTo(StrategyReviews, MaxStrategyReviews) ]

InitStrategy ==
    /\ now = 0
    /\ tlPr = None
    /\ tlReviews = <<>>
    /\ tlComments = <<>>
    /\ tlResult = None
    /\ tlLocals = None
    /\ pullRequests = <<>>
    /\ reviews = <<>>
    /\ comments = <<>>
    /\ commentCategorizationCache = None
    /\ fetchTasks = <<>>
    /\ catTasks = <<>>
    /\ postFetchTimer = FALSE
    /\ response = None
    /\ prsUpdated = None
    /\ SummariesOff
    /\ RateLimiterOff
    /\ fnArgs \in {Some(args) : args \in StrategyArgs}
    /\ fnResults = <<>>
    /\ regexLastIndex = <<>>

StrategyCall ==
    /\ fnResults = <<>>
    /\ fnResults' = <<determineAnalysisStrategy(Val(fnArgs).comments,
                                                Val(fnArgs).reviews)>>
    /\ UNCHANGED <<now, fnArgs, regexLastIndex, tlVars, serverVars>>

NextStrategy == StrategyCall

SpecStrategy == InitStrategy /\ [][NextStrategy]_vars

(***************************************************************************)
(* Properties of the strategy (SpecStrategy).                              *)
(***************************************************************************)
StrategyCalled == fnResults # <<>>
StrategyArg == Val(fnArgs)
StrategyRes == fnResults[1]

HumanCommentCount(allComments) ==
    Cardinality({k \in 1..Len(allComments) : isHumanComment(allComments[k])})

HumanReviewCount(allReviews) ==
    Cardinality({k \in 1..Len(allReviews) :
        isHumanComment([author |-> allReviews[k].reviewer_username,
                        content |-> IF allReviews[k].content = None THEN <<>>
                                    ELSE Val(allReviews[k].content)])})

\* C17: determineAnalysisStrategy returns code_only with confidence medium
\* iff there is no human comment and no human review, human_discussion with
\* confidence high iff human comments and human reviews are five or more or
\* the human reviews are two or more, and hybrid with confidence medium
\* otherwise; the human and the bot comments add up to the comments, the
\* human and the bot reviews to the reviews.
C17_ExactlyOneStrategy ==
    StrategyCalled =>
        LET hc == HumanCommentCount(StrategyArg.comments)
            hr == HumanReviewCount(StrategyArg.reviews)
            res == StrategyRes
        IN  /\ res.type \in {"code_only", "human_discussion", "hybrid"}
            /\ res.type = "code_only" <=> hc + hr = 0
            /\ res.type = "human_discussion" <=> (hc + hr >= 5 \/ hr >= 2)
            /\ res.confidence_level =
                  (IF res.type = "human_discussion" THEN "high" ELSE "medium")
            /\ res.human_comments = hc
            /\ res.human_reviews = hr
            /\ res.human_comments + res.bot_comments = Len(StrategyArg.comments)
            /\ res.human_reviews + res.bot_reviews = Len(StrategyArg.reviews)

\* Two human reviews and fewer than five human interactions.
C17_Witness ==
    /\ StrategyCalled
    /\ StrategyRes.type = "human_discussion"
    /\ StrategyRes.human_reviews = 2
    /\ StrategyRes.human_comments + StrategyRes.human_reviews < 5
    /\ StrategyRes.bot_comments > 0

(***************************************************************************)
(* The data version hash (index.ts, generateDataVersionHash).              *)
(***************************************************************************)
\* Printable ASCII, from code 32 on.
Ascii ==
    Units(" !\"#$%&'()*+,-./0123456789:;<=>?@ABCDEFGHIJKLMNOPQRSTUVWXYZ")
    \o Units("[\\]^_") \o <<"u0060">> \o Units("abcdefghijklmnopqrstuvwxyz{|}~")
AsciiBase == 31

CharCodeTable ==
    [c \in {Ascii[i] : i \in 1..Len(Ascii)} |->
        AsciiBase + (CHOOSE i \in 1..Len(Ascii) : Ascii[i] = c)]

charCodeAt(s, i) == CharCodeTable[s[i]]

Digits36 == Units("0123456789abcdefghijklmnopqrstuvwxyz")

\* Number.prototype.toString(10) of a natural number.
RECURSIVE Decimal(_)
Decimal(n) ==
    IF n < 10 THEN <<Digits36[n + 1]>>
    ELSE Decimal(n \div 10) \o <<Digits36[(n % 10) + 1]>>

TwoDigits(n) == <<Digits36[(n \div 10) + 1], Digits36[(n % 10) + 1]>>

\* The ISO timestamp GitHub sends for an hour of the model's clock; hour 0
\* is 2024-01-01T00:00:00Z and the clock stays within January.
IsoString(hours) ==
    Units("2024-01-") \o TwoDigits((hours \div HoursPerDay) + 1) \o <<"T">>
    \o TwoDigits(hours % HoursPerDay) \o Units(":00:00Z")

\* The order Array.prototype.sort() uses without a comparator: code units.
RECURSIVE StringLess(_, _)
StringLess(a, b) ==
    IF b = <<>> THEN FALSE
    ELSE IF a = <<>> THEN TRUE
    ELSE IF Head(a) # Head(b)
         THEN CharCodeTable[Head(a)] < CharCodeTable[Head(b)]
    ELSE StringLess(Tail(a), Tail(b))

\* strings.sort().slice(-1)[0] || ''
LastSorted(strings) ==
    IF strings = <<>> THEN <<>>
    ELSE LET k == CHOOSE k \in 1..Len(strings) :
                      \A j \in 1..Len(strings) : ~StringLess(strings[k], strings[j])
         IN  strings[k]

\* JSON.stringify of the four-field object, keys in insertion order.
dataString(prCount, commentCount, lastUpdated, humanCommentCount) ==
    Units("{\"prCount\":") \o Decimal(prCount)
    \o Units(",\"commentCount\":") \o Decimal(commentCount)
    \o Units(",\"lastUpdated\":\"") \o lastUpdated
    \o Units("\",\"humanCommentCount\":") \o Decimal(humanCommentCount)
    \o Units("}")

\* A 32-bit integer is kept as two 16-bit limbs <<high, low>>, so that no
\* intermediate value leaves the range of the checker's integers.
Limb == 65536
Byte == 256

\* The 32-bit product of two limbs.
Mul16(x, y) ==
    LET upper == x * (y \div Byte)
        low   == (upper % Byte) * Byte + x * (y % Byte)
    IN  <<((upper \div Byte) + (low \div Limb)) % Limb, low % Limb>>

\* a * b and a + b, truncated to 32 bits.
Mul32(a, b) ==
    LET lowProduct == Mul16(a[2], b[2])
    IN  <<(lowProduct[1] + Mul16(a[1], b[2])[2] + Mul16(a[2], b[1])[2]) % Limb,
          lowProduct[2]>>

Add32(a, b) ==
    LET low == a[2] + b[2]
    IN  <<(a[1] + b[1] + (low \div Limb)) % Limb, low % Limb>>

\* (hash << 5) - hash is 31 * hash in 32 bits.
HashMultiplier == <<0, 31>>

\* The loop `hash = ((hash << 5) - hash) + char; hash = hash & hash` over
\* s[lo..hi] maps hash to hash * weight + value, with weight = 31^(hi-lo+1).
\* Two adjacent ranges compose, which keeps the evaluation shallow.
RECURSIVE HashRange(_, _, _)
HashRange(s, lo, hi) ==
    IF lo = hi
    THEN [weight |-> HashMultiplier, value |-> <<0, charCodeAt(s, lo)>>]
    ELSE LET mid   == (lo + hi) \div 2
             left  == HashRange(s, lo, mid)
             right == HashRange(s, mid + 1, hi)
         IN  [weight |-> Mul32(left.weight, right.weight),
              value  |-> Add32(Mul32(left.value, right.weight), right.value)]

\* let hash = 0; for (i = 0; i < s.length; i++) { ... }
HashString(s) == IF s = <<>> THEN <<0, 0>> ELSE HashRange(s, 1, Len(s)).value

\* Math.abs of the signed reading of the 32 bits.
MathAbs32(hash) ==
    IF hash[1] < Limb \div 2 THEN hash
    ELSE IF hash[2] = 0 THEN <<Limb - hash[1], 0>>
    ELSE <<Limb - 1 - hash[1], Limb - hash[2]>>

\* Number.prototype.toString(36) of a non-negative two-limb number.
RECURSIVE ToString36(_)
ToString36(n) ==
    LET rest  == (n[1] % 36) * Limb + n[2]
        quot  == <<n[1] \div 36, rest \div 36>>
        digit == <<Digits36[(rest % 36) + 1]>>
    IN  IF quot = <<0, 0>> THEN digit ELSE ToString36(quot) \o digit

CACHE_VERSION_PREFIX == Units("v1_")

VersionOf(prCount, commentCount, lastUpdated, humanCommentCount) ==
    CACHE_VERSION_PREFIX
    \o ToString36(MathAbs32(HashString(
           dataString(prCount, commentCount, lastUpdated, humanCommentCount))))

(***************************************************************************)
(* The server.  What GitHub may answer is drawn from the bounded sets      *)
(* below; every answer is chosen when the awaited call resolves.           *)
(***************************************************************************)
MaxPRs == 1
MaxCommentId == 1
MaxHostReviews == 1

\* The handlers that can be in flight at once.
FetchSlots == {"f1", "f2"}
CacheFetchSlots == {"f1"}
CatSlots == {"c1"}

PRNumbers == 1..MaxPRs
CommentIds == 1..MaxCommentId
HostUpdatedTimes == {6, 30}
ConnectorLabel == "A-connector-integration"

HostPRs ==
    [number : PRNumbers, login : {Some("dev")}, updated_at : HostUpdatedTimes,
     state : {"open"}, labels : {<<ConnectorLabel>>, <<"C-bug">>}]

HostReviews ==
    [login : {"alice"}, state : {"APPROVED", "CHANGES_REQUESTED", "DISMISSED"}]

HostRequestedReviewers == {<<>>, <<"alice">>}

HostBodies == {Units("Please fix it"), Units("Fixed, thanks"), Units("ok")}

HostComments == [id : CommentIds, login : {Some(Units("alice"))}, body : HostBodies]

\* A list answer names every PR (every comment) at most once, in the order
\* of the numbers.
HostPRLists ==
    {s \in SeqsUpTo(HostPRs, MaxPRs) :
        \A i, j \in 1..Len(s) : i < j => s[i].number < s[j].number}

HostReviewLists == SeqsUpTo(HostReviews, MaxHostReviews)

HostCommentLists ==
    {s \in SeqsUpTo(HostComments, MaxCommentId) :
        \A i, j \in 1..Len(s) : i < j => s[i].id < s[j].id}

(***************************************************************************)
(* Pure helpers of the store.                                              *)
(***************************************************************************)
isConnectorIntegrationPR(pr) ==
    \E k \in 1..Len(pr.labels) : pr.labels[k] = ConnectorLabel

normalizeReviewState(githubState) ==
    CASE githubState = "APPROVED" -> "approved"
      [] githubState = "CHANGES_REQUESTED" -> "changes_requested"
      [] githubState = "COMMENTED" -> "commented"
      [] githubState = "DISMISSED" -> "commented"
      [] OTHER -> "commented"

\* The latest reviews of a PR (reviews.filter(r => r.pr_id === prNumber &&
\* r.is_latest_review)).
LatestReviewsOf(allReviews, prNumber) ==
    LET Mine(r) == r.pr_id = prNumber /\ r.is_latest_review
    IN  SelectSeq(allReviews, Mine)

ReviewersIn(prReviews, state) ==
    LET InState(r) == r.review_state = state
        selected == SelectSeq(prReviews, InState)
    IN  [k \in 1..Len(selected) |-> selected[k].reviewer_username]

Includes(s, x) == \E k \in 1..Len(s) : s[k] = x

countApprovals(allReviews, prNumber) ==
    Len(ReviewersIn(LatestReviewsOf(allReviews, prNumber), "approved"))

\* Set.add for each element of `items`, in order.
RECURSIVE addAll(_, _, _)
addAll(set, items, i) ==
    IF i > Len(items) THEN set
    ELSE addAll(IF Includes(set, items[i]) THEN set ELSE Append(set, items[i]),
                items, i + 1)

getPendingReviewers(allReviews, prNumber, requestedReviewers, prAuthor) ==
    LET prReviews == LatestReviewsOf(allReviews, prNumber)
        approvedReviewers == ReviewersIn(prReviews, "approved")
        changesRequestedReviewers == ReviewersIn(prReviews, "changes_requested")
        commentedReviewers == ReviewersIn(prReviews, "commented")
        NotAuthor(r) == r # prAuthor
        NotApproved(r) == ~Includes(approvedReviewers, r)
        filteredRequestedReviewers == SelectSeq(requestedReviewers, NotAuthor)
        filteredChangesRequestedReviewers ==
            SelectSeq(changesRequestedReviewers, NotAuthor)
        filteredCommentedReviewers == SelectSeq(commentedReviewers, NotAuthor)
        requested ==
            addAll(<<>>, SelectSeq(filteredRequestedReviewers, NotApproved), 1)
        changes == addAll(requested, filteredChangesRequestedReviewers, 1)
    IN  addAll(changes, SelectSeq(filteredCommentedReviewers, NotApproved), 1)

\* pullRequests = connectorPRs.map(pr => ({ ... })).  Of the fields that are
\* copied from the payload and never written again the record keeps the
\* number, the author, updated_at and the status.
PullRequest(pr) ==
    [github_pr_number |-> pr.number,
     author |-> Val(OrElse(pr.login, Some("unknown"))),
     updated_at |-> pr.updated_at,
     status |-> pr.state,
     current_approvals_count |-> 0,
     requested_reviewers |-> <<>>,
     pending_reviewers |-> <<>>]

mapConnectorPRs(prs) ==
    LET connectorPRs == SelectSeq(prs, isConnectorIntegrationPR)
    IN  [k \in 1..Len(connectorPRs) |-> PullRequest(connectorPRs[k])]

\* latestReviews.set(review.user.login, review) for each review: a Map keeps
\* the position of a key's first insertion and the value of its last.
RECURSIVE latestReviews(_, _, _)
latestReviews(prReviews, i, map) ==
    IF i > Len(prReviews) THEN map
    ELSE LET review == prReviews[i]
             Same(k) == map[k].login = review.login
         IN  latestReviews(prReviews, i + 1,
                 IF \E k \in 1..Len(map) : Same(k)
                 THEN [map EXCEPT ![CHOOSE k \in 1..Len(map) : Same(k)] = review]
                 ELSE Append(map, review))

Review(review, prNumber) ==
    [pr_id |-> prNumber,
     reviewer_username |-> review.login,
     review_state |-> normalizeReviewState(review.state),
     is_latest_review |-> TRUE]

\* every review of the answer is pushed
storeReviews_EveryReview(allReviews, prNumber, prReviews) ==
    LET Others(r) == r.pr_id # prNumber
    IN  SelectSeq(allReviews, Others)
        \o [k \in 1..Len(prReviews) |-> Review(prReviews[k], prNumber)]

\* one push per reviewer, the stored reviews of the PR kept
storeReviews_Keep(allReviews, prNumber, prReviews) ==
    LET latest == latestReviews(prReviews, 1, <<>>)
    IN  allReviews \o [k \in 1..Len(latest) |-> Review(latest[k], prNumber)]

\* reviews = reviews.filter(r => r.pr_id !== prNumber), then one push per
\* reviewer.
storeReviews(allReviews, prNumber, prReviews) ==
    LET Others(r) == r.pr_id # prNumber
        latest == latestReviews(prReviews, 1, <<>>)
    IN  SelectSeq(allReviews, Others)
        \o [k \in 1..Len(latest) |-> Review(latest[k], prNumber)]

Comment(comment, prNumber, type) ==
    [github_comment_id |-> comment.id,
     pr_id |-> prNumber,
     author |-> Val(OrElse(comment.login, Some(Units("unknown")))),
     content |-> comment.body,
     comment_type |-> type]

\* comments.find(c => c.github_comment_id === comment.id)
existingComment(allComments, id) ==
    \E k \in 1..Len(allComments) : allComments[k].github_comment_id = id

\* fetchPRComments after its await: drop the PR's general comments, then push
\* every comment of the answer whose id is not in the store.
RECURSIVE pushGeneral(_, _, _, _)
pushGeneral(allComments, prComments, i, prNumber) ==
    IF i > Len(prComments) THEN allComments
    ELSE pushGeneral(
             IF existingComment(allComments, prComments[i].id) THEN allComments
             ELSE Append(allComments, Comment(prComments[i], prNumber, "general")),
             prComments, i + 1, prNumber)

storeGeneralComments(allComments, prNumber, prComments) ==
    LET Kept(c) == c.pr_id # prNumber \/ c.comment_type = "review"
    IN  pushGeneral(SelectSeq(allComments, Kept), prComments, 1, prNumber)

\* The loop of fetchPRReviewComments runs on until it meets a comment whose
\* id is not in the store: there it suspends in `await getCachedCodeContext`.
RECURSIVE skipExisting(_, _)
skipExisting(queue, allComments) ==
    IF queue # <<>> /\ existingComment(allComments, Head(queue).id)
    THEN skipExisting(Tail(queue), allComments)
    ELSE queue

(***************************************************************************)
(* Handlers in flight.  A fetch task is one invocation of                  *)
(* fetchConnectorPRs, fetchPRReviews, fetchPRReviewComments or             *)
(* fetchPRComments, suspended at the await its pc names; the calls it      *)
(* makes to the other fetch functions run inside the same task.            *)
(*   entry     the function the handler invoked                            *)
(*   pr        the PR number of the innermost call                         *)
(*   list      fetchConnectorPRs: the array its `for (const pr of ...)`    *)
(*             iterates, idx the position of the loop                      *)
(*   isGlobal  whether the global pullRequests still is that array         *)
(*   queue     fetchPRReviewComments: the answer from the comment the loop *)
(*             is at                                                       *)
(***************************************************************************)
IdleTask ==
    [entry |-> "idle", pc |-> "idle", pr |-> 0, list |-> <<>>, idx |-> 0,
     isGlobal |-> FALSE, queue |-> <<>>]

IsIdle(t) == fetchTasks[t].pc = "idle"

\* A step in which no fetchConnectorPRs run reaches its broadcastUpdate.
NoBroadcast == prsUpdated' = None

\* Every handler of the fetch side leaves the categorization side alone.
FetchOnly ==
    /\ response' = None
    /\ UNCHANGED <<now, commentCategorizationCache, catTasks, summaryVars,
                   rateVars, tlVars, fnVars>>

\* fetchPRReviews has returned to its caller.  In fetchConnectorPRs the loop
\* body goes on (lines 1176-1177): it writes the approval count and the
\* pending reviewers into its record and moves to the next PR, or falls out
\* of the loop and schedules the post-fetch callback.
afterReviews(task, allReviews) ==
    IF task.entry # "connector"
    THEN [task |-> IdleTask, list |-> task.list, scheduled |-> FALSE]
    ELSE LET pr == task.list[task.idx]
             list == [task.list EXCEPT ![task.idx] =
                         [pr EXCEPT
                            !.current_approvals_count =
                                countApprovals(allReviews, pr.github_pr_number),
                            !.pending_reviewers =
                                getPendingReviewers(allReviews, pr.github_pr_number,
                                    pr.requested_reviewers, pr.author)]]
         IN  IF task.idx < Len(list)
             THEN [task |-> [task EXCEPT !.pc = "getPR", !.pr = 0, !.list = list,
                                         !.idx = task.idx + 1, !.queue = <<>>],
                   list |-> list, scheduled |-> FALSE]
             ELSE [task |-> IdleTask, list |-> list, scheduled |-> TRUE]

Resume_WritesGlobal(t, after) ==
    /\ fetchTasks' = [fetchTasks EXCEPT ![t] = after.task]
    /\ pullRequests' = IF fetchTasks[t].entry = "connector"
                       THEN after.list ELSE pullRequests
    /\ postFetchTimer' = (postFetchTimer \/ after.scheduled)
    /\ prsUpdated' = IF after.scheduled THEN Some(pullRequests') ELSE None

\* The step of task t that ends with `after`: the task record, the global
\* array if the task's list is that array and, when the loop is over, the
\* broadcast of the global `pullRequests` (line 1189) and the post-fetch
\* callback.
Resume(t, after) ==
    /\ fetchTasks' = [fetchTasks EXCEPT ![t] = after.task]
    /\ pullRequests' = IF fetchTasks[t].entry = "connector" /\ fetchTasks[t].isGlobal
                       THEN after.list ELSE pullRequests
    /\ postFetchTimer' = (postFetchTimer \/ after.scheduled)
    /\ prsUpdated' = IF after.scheduled THEN Some(pullRequests') ELSE None

\* setInterval(fetchConnectorPRs), initialize() and the webhook event
\* pull_request: fetchConnectorPRs runs up to `await octokit.rest.pulls.list`.
StartFetchConnectorPRs(t) ==
    /\ IsIdle(t)
    /\ fetchTasks' = [fetchTasks EXCEPT ![t] =
                         [IdleTask EXCEPT !.entry = "connector", !.pc = "listPRs"]]
    /\ UNCHANGED <<pullRequests, reviews, comments, postFetchTimer>>
    /\ NoBroadcast
    /\ FetchOnly

\* Webhook event pull_request_review: fetchPRReviews(n) and fetchConnectorPRs()
\* are both called, neither is awaited.
WebhookPullRequestReview(t, u, prNumber) ==
    /\ t # u
    /\ IsIdle(t)
    /\ IsIdle(u)
    /\ fetchTasks' = [fetchTasks EXCEPT
                         ![t] = [IdleTask EXCEPT !.entry = "reviews",
                                     !.pc = "listReviews", !.pr = prNumber],
                         ![u] = [IdleTask EXCEPT !.entry = "connector",
                                     !.pc = "listPRs"]]
    /\ UNCHANGED <<pullRequests, reviews, comments, postFetchTimer>>
    /\ NoBroadcast
    /\ FetchOnly

\* Webhook event pull_request_review_comment.
WebhookReviewComment(t, prNumber) ==
    /\ IsIdle(t)
    /\ fetchTasks' = [fetchTasks EXCEPT ![t] =
                         [IdleTask EXCEPT !.entry = "reviewComments",
                              !.pc = "listReviewComments", !.pr = prNumber]]
    /\ UNCHANGED <<pullRequests, reviews, comments, postFetchTimer>>
    /\ NoBroadcast
    /\ FetchOnly

\* Webhook event issue_comment and GET /api/prs/:prNumber/comments: both call
\* fetchPRComments(n); the route answers once the call has returned.
StartFetchPRComments(t, prNumber) ==
    /\ IsIdle(t)
    /\ fetchTasks' = [fetchTasks EXCEPT ![t] =
                         [IdleTask EXCEPT !.entry = "comments",
                              !.pc = "listComments", !.pr = prNumber]]
    /\ UNCHANGED <<pullRequests, reviews, comments, postFetchTimer>>
    /\ NoBroadcast
    /\ FetchOnly

\* pulls.list resolves: the global is assigned a new array (line 1134), which
\* the loop then iterates.
ListPRsOk(t, prs) ==
    /\ fetchTasks[t].pc = "listPRs"
    /\ LET list == mapConnectorPRs(prs)
       IN  /\ pullRequests' = list
           /\ fetchTasks' =
                 [u \in DOMAIN fetchTasks |->
                     IF u = t
                     THEN IF list = <<>> THEN IdleTask
                          ELSE [fetchTasks[t] EXCEPT !.pc = "getPR", !.list = list,
                                                     !.idx = 1, !.isGlobal = TRUE]
                     ELSE [fetchTasks[u] EXCEPT !.isGlobal = FALSE]]
           /\ postFetchTimer' = (postFetchTimer \/ list = <<>>)
           /\ prsUpdated' = IF list = <<>> THEN Some(list) ELSE None
    /\ UNCHANGED <<reviews, comments>>
    /\ FetchOnly

\* pulls.list rejects: the outer catch logs (line 1205).
ListPRsFail(t) ==
    /\ fetchTasks[t].pc = "listPRs"
    /\ fetchTasks' = [fetchTasks EXCEPT ![t] = IdleTask]
    /\ UNCHANGED <<pullRequests, reviews, comments, postFetchTimer>>
    /\ NoBroadcast
    /\ FetchOnly

\* pulls.get resolves: the record gets its requested reviewers (line 1168)
\* and fetchPRReviews is called.
GetPROk(t, requestedReviewers) ==
    /\ fetchTasks[t].pc = "getPR"
    /\ LET task == fetchTasks[t]
           list == [task.list EXCEPT
                       ![task.idx].requested_reviewers = requestedReviewers]
       IN  Resume(t, [task |-> [task EXCEPT !.pc = "listReviews", !.list = list,
                                    !.pr = list[task.idx].github_pr_number],
                      list |-> list, scheduled |-> FALSE])
    /\ UNCHANGED <<reviews, comments>>
    /\ FetchOnly

\* pulls.get rejects: the catch of the loop body resets the record (lines
\* 1182-1184) and the loop goes on.
GetPRFail(t) ==
    /\ fetchTasks[t].pc = "getPR"
    /\ LET task == fetchTasks[t]
           list == [task.list EXCEPT
                       ![task.idx].requested_reviewers = <<>>,
                       ![task.idx].pending_reviewers = <<>>,
                       ![task.idx].current_approvals_count = 0]
       IN  Resume(t, IF task.idx < Len(list)
                     THEN [task |-> [task EXCEPT !.list = list, !.idx = task.idx + 1],
                           list |-> list, scheduled |-> FALSE]
                     ELSE [task |-> IdleTask, list |-> list, scheduled |-> TRUE])
    /\ UNCHANGED <<reviews, comments>>
    /\ FetchOnly

\* pulls.listReviews resolves: the PR's reviews are replaced and
\* fetchPRReviewComments is called.
ListReviewsOk(t, prReviews) ==
    /\ fetchTasks[t].pc = "listReviews"
    /\ reviews' = storeReviews(reviews, fetchTasks[t].pr, prReviews)
    /\ fetchTasks' = [fetchTasks EXCEPT ![t].pc = "listReviewComments"]
    /\ UNCHANGED <<pullRequests, comments, postFetchTimer>>
    /\ NoBroadcast
    /\ FetchOnly

\* pulls.listReviews rejects: fetchPRReviews logs and returns.
ListReviewsFail(t) ==
    /\ fetchTasks[t].pc = "listReviews"
    /\ Resume(t, afterReviews(fetchTasks[t], reviews))
    /\ UNCHANGED <<reviews, comments>>
    /\ FetchOnly

\* pulls.listReviewComments resolves: the loop runs to the first comment that
\* is not in the store and suspends in getCachedCodeContext, or runs out.
ListReviewCommentsOk(t, reviewComments) ==
    /\ fetchTasks[t].pc = "listReviewComments"
    /\ LET queue == skipExisting(reviewComments, comments)
       IN  IF queue # <<>>
           THEN /\ fetchTasks' = [fetchTasks EXCEPT ![t].pc = "codeContext",
                                                    ![t].queue = queue]
                /\ UNCHANGED <<pullRequests, postFetchTimer>>
                /\ NoBroadcast
           ELSE Resume(t, afterReviews(fetchTasks[t], reviews))
    /\ UNCHANGED <<reviews, comments>>
    /\ FetchOnly

\* pulls.listReviewComments rejects: fetchPRReviewComments logs and returns.
ListReviewCommentsFail(t) ==
    /\ fetchTasks[t].pc = "listReviewComments"
    /\ Resume(t, afterReviews(fetchTasks[t], reviews))
    /\ UNCHANGED <<reviews, comments>>
    /\ FetchOnly

\* getCachedCodeContext settles (with a context, null or an error that the
\* inner catch absorbs): the comment is pushed (line 1303) and the loop goes
\* on to the next comment that is not in the store.
CodeContextDone(t) ==
    /\ fetchTasks[t].pc = "codeContext"
    /\ LET task == fetchTasks[t]
           pushed == Append(comments, Comment(Head(task.queue), task.pr, "review"))
           queue == skipExisting(Tail(task.queue), pushed)
       IN  /\ comments' = pushed
           /\ IF queue # <<>>
              THEN /\ fetchTasks' = [fetchTasks EXCEPT ![t].queue = queue]
                   /\ UNCHANGED <<pullRequests, postFetchTimer>>
                   /\ NoBroadcast
              ELSE Resume(t, afterReviews(task, reviews))
    /\ UNCHANGED reviews
    /\ FetchOnly

\* issues.listComments resolves.
ListCommentsOk(t, prComments) ==
    /\ fetchTasks[t].pc = "listComments"
    /\ comments' = storeGeneralComments(comments, fetchTasks[t].pr, prComments)
    /\ fetchTasks' = [fetchTasks EXCEPT ![t] = IdleTask]
    /\ UNCHANGED <<pullRequests, reviews, postFetchTimer>>
    /\ NoBroadcast
    /\ FetchOnly

\* issues.listComments rejects: fetchPRComments logs and returns.
ListCommentsFail(t) ==
    /\ fetchTasks[t].pc = "listComments"
    /\ fetchTasks' = [fetchTasks EXCEPT ![t] = IdleTask]
    /\ UNCHANGED <<pullRequests, reviews, comments, postFetchTimer>>
    /\ NoBroadcast
    /\ FetchOnly

(***************************************************************************)
(* The comment-categorization cache.                                       *)
(***************************************************************************)
CACHE_EXPIRY_HOURS == 2

DigitValue(c) == CHOOSE d \in 0..9 : Digits36[d + 1] = c

\* Date.prototype.toISOString and new Date(isoString), for the hours of the
\* model's clock.
toISOString(hours) ==
    Units("2024-01-") \o TwoDigits((hours \div HoursPerDay) + 1) \o <<"T">>
    \o TwoDigits(hours % HoursPerDay) \o Units(":00:00.000Z")

parseDate(iso) ==
    (10 * DigitValue(iso[9]) + DigitValue(iso[10]) - 1) * HoursPerDay
    + 10 * DigitValue(iso[12]) + DigitValue(iso[13])

\* comments.filter(isHumanComment).  HumanTable is the graph of isHumanComment
\* over the authors and bodies GitHub can send, computed once.
HumanTable ==
    {<<author, content, isHumanComment([author |-> author, content |-> content])>> :
        <<author, content>> \in {Val(c.login) : c \in HostComments} \X HostBodies}

IsHuman(comment) == <<comment.author, comment.content, TRUE>> \in HumanTable

humanCommentsOf(allComments) == SelectSeq(allComments, IsHuman)

\* The hash depends on four values only.  VersionTable maps each combination
\* the store can show to VersionOf of it; it is built once (the @@ makes it
\* an explicit table) and generateDataVersionHash looks the current
\* combination up.
MaxStoredComments == MaxCommentId * Cardinality(FetchSlots)

VersionTable ==
    [summary \in (0..MaxPRs) \X (0..MaxStoredComments)
                    \X ({<<>>} \cup {IsoString(t) : t \in HostUpdatedTimes})
                    \X (0..MaxStoredComments) |->
        VersionOf(summary[1], summary[2], summary[3], summary[4])] @@ <<>>

dataSummary_WithoutHumanCount(prs, allComments) ==
    <<Len(prs), Len(allComments),
      LastSorted([k \in 1..Len(prs) |-> IsoString(prs[k].updated_at)]), 0>>

dataSummary(prs, allComments) ==
    <<Len(prs), Len(allComments),
      LastSorted([k \in 1..Len(prs) |-> IsoString(prs[k].updated_at)]),
      Len(humanCommentsOf(allComments))>>

generateDataVersionHash(prs, allComments) ==
    VersionTable[dataSummary(prs, allComments)]

isCacheValid_ExpiryInclusive(cache, clock, prs, allComments) ==
    /\ cache # None
    /\ clock <= parseDate(Val(cache).expires_at)
    /\ Val(cache).version = generateDataVersionHash(prs, allComments)

isCacheValid(cache, clock, prs, allComments) ==
    IF cache = None THEN FALSE
    ELSE LET expiryTime == parseDate(Val(cache).expires_at)
             currentVersion == generateDataVersionHash(prs, allComments)
             isNotExpired == clock < expiryTime
             isVersionValid == Val(cache).version = currentVersion
         IN  isNotExpired /\ isVersionValid

createCacheEntry(data, clock, prs, allComments) ==
    [data |-> data,
     generated_at |-> toISOString(clock),
     expires_at |-> toISOString(clock + CACHE_EXPIRY_HOURS),
     version |-> generateDataVersionHash(prs, allComments)]

\* What the categorizer returns is represented by the dataset it was handed:
\* the version hash the store had when categorizeComments was called.
Categorization(prs, allComments) ==
    [computed_from |-> generateDataVersionHash(prs, allComments)]

\* categorizeComments awaits the model once per PR that has comments among
\* the human comments it was handed; with no such PR it returns without
\* suspending.
categorizerAwaits(prs, humanComments) ==
    \E k \in 1..Len(prs) : \E j \in 1..Len(humanComments) :
        humanComments[j].pr_id = prs[k].github_pr_number

\* A categorization run in flight: who called the categorizer, and the result
\* it will return if it succeeds.
IdleRun == [caller |-> "idle", result |-> None]

Response(route, status, cacheStatus) ==
    Some([route |-> route, status |-> status, cacheStatus |-> cacheStatus])

HasData == pullRequests # <<>> /\ humanCommentsOf(comments) # <<>>

CacheOnly ==
    /\ prsUpdated' = None
    /\ UNCHANGED <<now, pullRequests, reviews, comments, fetchTasks, summaryVars,
                   rateVars, tlVars, fnVars>>

\* The call `await geminiService.categorizeComments(pullRequests,
\* humanComments)` made by `caller` in slot c: the run is suspended in the
\* categorizer, or has already returned and the entry is stored.
Categorize(c, caller, cacheBefore) ==
    LET data == Categorization(pullRequests, comments)
    IN  IF categorizerAwaits(pullRequests, humanCommentsOf(comments))
        THEN /\ catTasks[c].caller = "idle"
             /\ catTasks' = [catTasks EXCEPT ![c] =
                                [caller |-> caller, result |-> Some(data)]]
             /\ commentCategorizationCache' = cacheBefore
             /\ response' = IF caller = "refresh"
                            THEN Response("refresh", 200, "") ELSE None
        ELSE /\ catTasks' = catTasks
             /\ commentCategorizationCache' =
                    Some(createCacheEntry(data, now, pullRequests, comments))
             /\ response' = CASE caller = "get" ->
                                     Response("categorization", 200, "MISS")
                              [] caller = "refresh" -> Response("refresh", 200, "")
                              [] OTHER -> None

\* generateBackgroundCategorization up to its await, called with the slot
\* holding cacheBefore.
generateBackgroundCategorization(c, caller, cacheBefore) ==
    IF HasData
    THEN Categorize(c, caller, cacheBefore)
    ELSE /\ commentCategorizationCache' = cacheBefore
         /\ catTasks' = catTasks
         /\ response' = IF caller = "refresh"
                        THEN Response("refresh", 200, "") ELSE None

GetCategorization_WithoutCacheCheck(c) ==
    /\ IF pullRequests = <<>> \/ humanCommentsOf(comments) = <<>>
       THEN /\ response' = Response("categorization", 400, "")
            /\ UNCHANGED <<commentCategorizationCache, catTasks>>
       ELSE Categorize(c, "get", commentCategorizationCache)
    /\ UNCHANGED postFetchTimer
    /\ CacheOnly

\* GET /api/analytics/comment-categorization, up to its answer or its await.
GetCategorization(c) ==
    /\ IF isCacheValid(commentCategorizationCache, now, pullRequests, comments)
       THEN /\ response' = Response("categorization", 200, "HIT")
            /\ UNCHANGED <<commentCategorizationCache, catTasks>>
       ELSE IF pullRequests = <<>>
       THEN /\ response' = Response("categorization", 400, "")
            /\ UNCHANGED <<commentCategorizationCache, catTasks>>
       ELSE IF humanCommentsOf(comments) = <<>>
       THEN /\ response' = Response("categorization", 400, "")
            /\ UNCHANGED <<commentCategorizationCache, catTasks>>
       ELSE Categorize(c, "get", commentCategorizationCache)
    /\ UNCHANGED postFetchTimer
    /\ CacheOnly

\* The categorizer returns to the GET handler: the entry is stored and the
\* answer is sent with X-Cache-Status MISS.
GetCategorizationDone(c) ==
    /\ catTasks[c].caller = "get"
    /\ commentCategorizationCache' =
          Some(createCacheEntry(Val(catTasks[c].result), now, pullRequests, comments))
    /\ catTasks' = [catTasks EXCEPT ![c] = IdleRun]
    /\ response' = Response("categorization", 200, "MISS")
    /\ UNCHANGED postFetchTimer
    /\ CacheOnly

\* The categorizer throws: the handler's catch answers 500.
GetCategorizationFail(c) ==
    /\ catTasks[c].caller = "get"
    /\ catTasks' = [catTasks EXCEPT ![c] = IdleRun]
    /\ response' = Response("categorization", 500, "")
    /\ UNCHANGED <<commentCategorizationCache, postFetchTimer>>
    /\ CacheOnly

\* The categorizer returns to generateBackgroundCategorization.
BackgroundDone(c) ==
    /\ catTasks[c].caller \in {"background", "refresh"}
    /\ commentCategorizationCache' =
          Some(createCacheEntry(Val(catTasks[c].result), now, pullRequests, comments))
    /\ catTasks' = [catTasks EXCEPT ![c] = IdleRun]
    /\ response' = None
    /\ UNCHANGED postFetchTimer
    /\ CacheOnly

\* The categorizer throws: generateBackgroundCategorization logs.
BackgroundFail(c) ==
    /\ catTasks[c].caller \in {"background", "refresh"}
    /\ catTasks' = [catTasks EXCEPT ![c] = IdleRun]
    /\ response' = None
    /\ UNCHANGED <<commentCategorizationCache, postFetchTimer>>
    /\ CacheOnly

RefreshCache_ClearOnly(c) ==
    /\ commentCategorizationCache' = None
    /\ response' = Response("refresh", 200, "")
    /\ UNCHANGED <<catTasks, postFetchTimer>>
    /\ CacheOnly

\* POST /api/analytics/comment-categorization/cache/refresh
RefreshCache(c) ==
    /\ generateBackgroundCategorization(c, "refresh", None)
    /\ UNCHANGED postFetchTimer
    /\ CacheOnly

\* DELETE /api/analytics/comment-categorization/cache
ClearCache ==
    /\ commentCategorizationCache' = None
    /\ response' = Response("clear", 200, "")
    /\ UNCHANGED <<catTasks, postFetchTimer>>
    /\ CacheOnly

\* The callback fetchConnectorPRs schedules with setTimeout (line 1192).
PostFetchCallback(c) ==
    /\ postFetchTimer
    /\ postFetchTimer' = FALSE
    /\ IF ~isCacheValid(commentCategorizationCache, now, pullRequests, comments)
       THEN generateBackgroundCategorization(c, "background",
                                             commentCategorizationCache)
       ELSE /\ response' = None
            /\ UNCHANGED <<commentCategorizationCache, catTasks>>
    /\ CacheOnly

MaxClock == 3

\* An hour passes.
Tick ==
    /\ now < MaxClock
    /\ now' = now + 1
    /\ response' = None
    /\ prsUpdated' = None
    /\ UNCHANGED <<pullRequests, reviews, comments, commentCategorizationCache,
                   fetchTasks, catTasks, postFetchTimer, summaryVars, rateVars,
                   tlVars, fnVars>>

(***************************************************************************)
(* Specifications of the server.                                           *)
(*   Spec       two fetch handlers in flight on a store that starts empty; *)
(*   SpecCache  one fetch handler and one categorization run in flight,    *)
(*              the categorization routes, the post-fetch callback and     *)
(*              the clock.                                                 *)
(***************************************************************************)
TimelineOff ==
    /\ tlPr = None
    /\ tlReviews = <<>>
    /\ tlComments = <<>>
    /\ tlResult = None
    /\ tlLocals = None

\* The state after the module has loaded: empty arrays, an empty slot.
Init ==
    /\ now = 0
    /\ pullRequests = <<>>
    /\ reviews = <<>>
    /\ comments = <<>>
    /\ commentCategorizationCache = None
    /\ fetchTasks = [t \in FetchSlots |-> IdleTask]
    /\ catTasks = <<>>
    /\ postFetchTimer = FALSE
    /\ response = None
    /\ prsUpdated = None
    /\ SummariesOff
    /\ RateLimiterOff
    /\ TimelineOff
    /\ FunctionsOff

\* The states in which a first fetchConnectorPRs has just finished: the PRs
\* GitHub listed are in the store and the post-fetch callback is scheduled.
InitCache ==
    /\ now = 0
    /\ pullRequests \in {mapConnectorPRs(prs) : prs \in HostPRLists}
    /\ reviews = <<>>
    /\ comments = <<>>
    /\ commentCategorizationCache = None
    /\ fetchTasks = [t \in CacheFetchSlots |-> IdleTask]
    /\ catTasks = [c \in CatSlots |-> IdleRun]
    /\ postFetchTimer = TRUE
    /\ response = None
    /\ prsUpdated = None
    /\ SummariesOff
    /\ RateLimiterOff
    /\ TimelineOff
    /\ FunctionsOff

FetchNext ==
    \/ \E t \in DOMAIN fetchTasks : StartFetchConnectorPRs(t)
    \/ \E t, u \in DOMAIN fetchTasks : \E n \in PRNumbers :
          WebhookPullRequestReview(t, u, n)
    \/ \E t \in DOMAIN fetchTasks : \E n \in PRNumbers : WebhookReviewComment(t, n)
    \/ \E t \in DOMAIN fetchTasks : \E n \in PRNumbers : StartFetchPRComments(t, n)
    \/ \E t \in DOMAIN fetchTasks : \E prs \in HostPRLists : ListPRsOk(t, prs)
    \/ \E t \in DOMAIN fetchTasks : ListPRsFail(t)
    \/ \E t \in DOMAIN fetchTasks : \E rr \in HostRequestedReviewers : GetPROk(t, rr)
    \/ \E t \in DOMAIN fetchTasks : GetPRFail(t)
    \/ \E t \in DOMAIN fetchTasks : \E rs \in HostReviewLists : ListReviewsOk(t, rs)
    \/ \E t \in DOMAIN fetchTasks : ListReviewsFail(t)
    \/ \E t \in DOMAIN fetchTasks : \E cs \in HostCommentLists :
          ListReviewCommentsOk(t, cs)
    \/ \E t \in DOMAIN fetchTasks : ListReviewCommentsFail(t)
    \/ \E t \in DOMAIN fetchTasks : CodeContextDone(t)
    \/ \E t \in DOMAIN fetchTasks : \E cs \in HostCommentLists : ListCommentsOk(t, cs)
    \/ \E t \in DOMAIN fetchTasks : ListCommentsFail(t)

CacheNext ==
    \/ \E c \in DOMAIN catTasks : GetCategorization(c)
    \/ \E c \in DOMAIN catTasks : GetCategorizationDone(c)
    \/ \E c \in DOMAIN catTasks : GetCategorizationFail(c)
    \/ \E c \in DOMAIN catTasks : BackgroundDone(c)
    \/ \E c \in DOMAIN catTasks : BackgroundFail(c)
    \/ \E c \in DOMAIN catTasks : RefreshCache(c)
    \/ ClearCache
    \/ \E c \in DOMAIN catTasks : PostFetchCallback(c)
    \/ Tick

CommentFetchNext ==
    \/ \E t \in DOMAIN fetchTasks : \E n \in PRNumbers : StartFetchPRComments(t, n)
    \/ \E t \in DOMAIN fetchTasks : \E cs \in HostCommentLists : ListCommentsOk(t, cs)
    \/ \E t \in DOMAIN fetchTasks : ListCommentsFail(t)

Next == FetchNext

NextCache == CommentFetchNext \/ CacheNext

\* The categorization side with a categorizer that does not throw.
NextCacheLive ==
    \/ CommentFetchNext
    \/ \E c \in DOMAIN catTasks : GetCategorization(c)
    \/ \E c \in DOMAIN catTasks : GetCategorizationDone(c)
    \/ \E c \in DOMAIN catTasks : BackgroundDone(c)
    \/ \E c \in DOMAIN catTasks : RefreshCache(c)
    \/ ClearCache
    \/ \E c \in DOMAIN catTasks : PostFetchCallback(c)
    \/ Tick

Spec == Init /\ [][Next]_vars

SpecCache == InitCache /\ [][NextCache]_vars

\* A categorizer that does not throw returns, and a scheduled callback runs;
\* no request has to arrive.  The periodic fetchConnectorPRs (setInterval)
\* is left to the environment: a run whose listing fails returns from its
\* catch without scheduling a callback and without touching the store.
SpecCacheLive ==
    /\ InitCache
    /\ [][NextCacheLive]_vars
    /\ WF_vars(\E c \in DOMAIN catTasks : GetCategorizationDone(c))
    /\ WF_vars(\E c \in DOMAIN catTasks : BackgroundDone(c))
    /\ WF_vars(\E c \in DOMAIN catTasks : PostFetchCallback(c))

\* SpecCacheRuns: SpecCache with room for two categorization runs in
\* flight; nothing in the code bounds their number.
CatRunSlots == {"c1", "c2"}

InitCacheRuns ==
    /\ now = 0
    /\ pullRequests \in {mapConnectorPRs(prs) : prs \in HostPRLists}
    /\ reviews = <<>>
    /\ comments = <<>>
    /\ commentCategorizationCache = None
    /\ fetchTasks = [t \in CacheFetchSlots |-> IdleTask]
    /\ catTasks = [c \in CatRunSlots |-> IdleRun]
    /\ postFetchTimer = TRUE
    /\ response = None
    /\ prsUpdated = None
    /\ SummariesOff
    /\ RateLimiterOff
    /\ TimelineOff
    /\ FunctionsOff

SpecCacheRuns == InitCacheRuns /\ [][NextCache]_vars

(***************************************************************************)
(* SpecReviews: the refresh of the PRs and their reviews, with answers of  *)
(* listReviews that name a reviewer more than once.  The author of a PR    *)
(* can be among its requested reviewers and can comment on it; GitHub      *)
(* lists the reviews of a PR in the order they were submitted.             *)
(***************************************************************************)
MaxReviewAnswer == 2

ReviewAnswers ==
    SeqsUpTo([login : {"alice"}, state : {"APPROVED", "CHANGES_REQUESTED", "COMMENTED"}]
                 \cup [login : {"bob"}, state : {"APPROVED"}]
                 \cup [login : {"dev"}, state : {"COMMENTED"}],
             MaxReviewAnswer)

ReviewRequestedReviewers == {<<>>, <<"alice">>, <<"dev", "alice">>}

NextReviews ==
    \/ \E t \in DOMAIN fetchTasks : StartFetchConnectorPRs(t)
    \/ \E t, u \in DOMAIN fetchTasks : \E n \in PRNumbers :
          WebhookPullRequestReview(t, u, n)
    \/ \E t \in DOMAIN fetchTasks : \E prs \in HostPRLists : ListPRsOk(t, prs)
    \/ \E t \in DOMAIN fetchTasks : ListPRsFail(t)
    \/ \E t \in DOMAIN fetchTasks : \E rr \in ReviewRequestedReviewers : GetPROk(t, rr)
    \/ \E t \in DOMAIN fetchTasks : GetPRFail(t)
    \/ \E t \in DOMAIN fetchTasks : \E rs \in ReviewAnswers : ListReviewsOk(t, rs)
    \/ \E t \in DOMAIN fetchTasks : ListReviewsFail(t)
    \/ \E t \in DOMAIN fetchTasks : ListReviewCommentsOk(t, <<>>)
    \/ \E t \in DOMAIN fetchTasks : ListReviewCommentsFail(t)

SpecReviews == Init /\ [][NextReviews]_vars

(***************************************************************************)
(* The summaries: the Map prSummaries, GET /api/prs/:prNumber/summary,     *)
(* POST /api/prs/:prNumber/summary/regenerate and                          *)
(* generateBackgroundSummaries.  A summary is represented by its metadata: *)
(* when it was generated and by which model.  A summary task is one        *)
(* invocation of a route or of generateBackgroundSummaries, suspended at   *)
(* the await its pc names:                                                 *)
(*   kind   "get", "regenerate" or "background"                            *)
(*   pr     the PR number of the request                                   *)
(*   batch  background: prsNeedingSummaries; i the position of its loop    *)
(*   queue  regenerate: the answer of listReviewComments from the comment  *)
(*          the loop of fetchPRReviewComments is at                        *)
(***************************************************************************)
SummarySlots == {"s1", "s2"}

IdleSummaryTask ==
    [kind |-> "idle", pc |-> "idle", pr |-> 0, batch |-> <<>>, i |-> 0,
     queue |-> <<>>]

SummaryIdle(s) == sumTasks[s].pc = "idle"

PRSummary(model, clock) == [generated_at |-> clock, model_used |-> model]

\* prSummaries.has(prNumber)
hasSummary(summaries, prNumber) ==
    prNumber \in DOMAIN summaries /\ IsSome(summaries[prNumber])

\* pullRequests.find(p => p.github_pr_number === prNumber)
findPR(prs, prNumber) ==
    LET found == SelectSeq(prs, LAMBDA q : q.github_pr_number = prNumber)
    IN  IF found # <<>> THEN Some(found[1]) ELSE None

commentsOfPR(allComments, prNumber) ==
    SelectSeq(allComments, LAMBDA c : c.pr_id = prNumber)

reviewsOfPR(allReviews, prNumber) ==
    SelectSeq(allReviews, LAMBDA r : r.pr_id = prNumber)

SummaryResponse(route, status, prNumber) ==
    Some([route |-> route, status |-> status, pr |-> prNumber])

\* Every handler of the summaries leaves the rest of the server alone.
SummariesOnly ==
    UNCHANGED <<now, pullRequests, reviews, commentCategorizationCache,
                fetchTasks, catTasks, postFetchTimer, response, prsUpdated,
                rateVars, tlVars, fnVars>>

\* What the summary handlers compute from the comments and the reviews of a
\* PR: the strategy and the numbers of human comments and human reviews.
\* HumanReviewTable is the graph of isHumanReview over the reviews the store
\* can hold, computed once, as HumanTable is the graph of isHumanComment.
StoredReview(reviewer, body) ==
    [pr_id |-> 1, reviewer_username |-> Units(reviewer), review_state |-> "approved",
     is_latest_review |-> TRUE, content |-> Some(Units(body))]

SummaryReviews ==
    { StoredReview("alice", ""), StoredReview("alice", "LGTM"),
      StoredReview("alice", "Looks good to me") }

HumanReviewTable ==
    {<<r.reviewer_username, r.content, isHumanReview(r)>> : r \in SummaryReviews}

IsHumanStoredReview(review) ==
    <<review.reviewer_username, review.content, TRUE>> \in HumanReviewTable

analysisOf(allComments, allReviews) ==
    LET humanComments == SelectSeq(allComments, IsHuman)
        humanReviews == SelectSeq(allReviews, IsHumanStoredReview)
    IN  [ strategy |->
              strategyOf(humanComments,
                         SelectSeq(allComments, LAMBDA c : ~IsHuman(c)),
                         humanReviews,
                         SelectSeq(allReviews, LAMBDA r : ~IsHumanStoredReview(r))),
          humanComments |-> Len(humanComments),
          humanReviews |-> Len(humanReviews) ]

\* GET /api/prs/:prNumber/summary (lines 1475-1588), up to its answer or to
\* `await geminiService.generatePRSummary`.
GetSummary(s, prNumber) ==
    /\ SummaryIdle(s)
    /\ LET pr == findPR(pullRequests, prNumber)
           allComments == commentsOfPR(comments, prNumber)
           allReviews == reviewsOfPR(reviews, prNumber)
           analysis == analysisOf(allComments, allReviews)
       IN  IF hasSummary(prSummaries, prNumber)
           THEN /\ sumResponse' = SummaryResponse("summary", 200, prNumber)
                /\ UNCHANGED <<prSummaries, sumTasks>>
           ELSE IF pr = None
           THEN /\ sumResponse' = SummaryResponse("summary", 404, prNumber)
                /\ UNCHANGED <<prSummaries, sumTasks>>
           ELSE IF analysis.strategy.type = "code_only"
           THEN /\ prSummaries' = [prSummaries EXCEPT ![prNumber] =
                                      Some(PRSummary("code-analysis", now))]
                /\ sumResponse' = SummaryResponse("summary", 200, prNumber)
                /\ UNCHANGED sumTasks
           ELSE IF analysis.humanComments = 0 /\ analysis.humanReviews = 0
           THEN /\ sumResponse' = SummaryResponse("summary", 400, prNumber)
                /\ UNCHANGED <<prSummaries, sumTasks>>
           ELSE /\ sumTasks' = [sumTasks EXCEPT ![s] =
                                   [IdleSummaryTask EXCEPT !.kind = "get",
                                        !.pc = "generate", !.pr = prNumber]]
                /\ sumResponse' = None
                /\ UNCHANGED prSummaries
    /\ UNCHANGED <<comments, bgAttempted>>
    /\ SummariesOnly

\* The summarizer returns to the GET handler: the summary is cached and sent.
GetSummaryDone(s) ==
    /\ sumTasks[s].kind = "get"
    /\ sumTasks[s].pc = "generate"
    /\ prSummaries' = [prSummaries EXCEPT ![sumTasks[s].pr] =
                          Some(PRSummary("gemini", now))]
    /\ sumTasks' = [sumTasks EXCEPT ![s] = IdleSummaryTask]
    /\ sumResponse' = SummaryResponse("summary", 200, sumTasks[s].pr)
    /\ UNCHANGED <<comments, bgAttempted>>
    /\ SummariesOnly

\* The summarizer throws: the handler's catch answers 500.
GetSummaryFail(s) ==
    /\ sumTasks[s].kind = "get"
    /\ sumTasks[s].pc = "generate"
    /\ sumTasks' = [sumTasks EXCEPT ![s] = IdleSummaryTask]
    /\ sumResponse' = SummaryResponse("summary", 500, sumTasks[s].pr)
    /\ UNCHANGED <<prSummaries, comments, bgAttempted>>
    /\ SummariesOnly

\* POST /api/prs/:prNumber/summary/regenerate (lines 1590-1641), up to its
\* 404 or to the await inside fetchPRComments.
Regenerate(s, prNumber) ==
    /\ SummaryIdle(s)
    /\ IF findPR(pullRequests, prNumber) = None
       THEN /\ sumResponse' = SummaryResponse("regenerate", 404, prNumber)
            /\ UNCHANGED sumTasks
       ELSE /\ sumTasks' = [sumTasks EXCEPT ![s] =
                               [IdleSummaryTask EXCEPT !.kind = "regenerate",
                                    !.pc = "listComments", !.pr = prNumber]]
            /\ sumResponse' = None
    /\ UNCHANGED <<prSummaries, comments, bgAttempted>>
    /\ SummariesOnly

\* issues.listComments resolves inside fetchPRComments, which returns; the
\* handler goes on into fetchPRReviewComments.
RegenerateCommentsOk(s, prComments) ==
    /\ sumTasks[s].kind = "regenerate"
    /\ sumTasks[s].pc = "listComments"
    /\ comments' = storeGeneralComments(comments, sumTasks[s].pr, prComments)
    /\ sumTasks' = [sumTasks EXCEPT ![s].pc = "listReviewComments"]
    /\ sumResponse' = None
    /\ UNCHANGED <<prSummaries, bgAttempted>>
    /\ SummariesOnly

\* issues.listComments rejects: fetchPRComments logs and returns.
RegenerateCommentsFail(s) ==
    /\ sumTasks[s].kind = "regenerate"
    /\ sumTasks[s].pc = "listComments"
    /\ sumTasks' = [sumTasks EXCEPT ![s].pc = "listReviewComments"]
    /\ sumResponse' = None
    /\ UNCHANGED <<prSummaries, comments, bgAttempted>>
    /\ SummariesOnly

\* the handler after its two fetches, the cached summary left in place
RegenerateGathered_KeepSummary(s, allComments) ==
    LET prNumber == sumTasks[s].pr
        prComments == commentsOfPR(allComments, prNumber)
        prReviews == reviewsOfPR(reviews, prNumber)
    IN  IF Len(prComments) = 0 /\ Len(prReviews) = 0
        THEN /\ sumResponse' = SummaryResponse("regenerate", 400, prNumber)
             /\ sumTasks' = [sumTasks EXCEPT ![s] = IdleSummaryTask]
             /\ UNCHANGED prSummaries
        ELSE /\ UNCHANGED prSummaries
             /\ sumTasks' = [sumTasks EXCEPT ![s].pc = "generate",
                                             ![s].queue = <<>>]
             /\ sumResponse' = None

\* The handler after its two fetches (lines 1603-1620), the store holding
\* allComments: the 400, or prSummaries.delete and the call of the
\* summarizer.
RegenerateGathered(s, allComments) ==
    LET prNumber == sumTasks[s].pr
        prComments == commentsOfPR(allComments, prNumber)
        prReviews == reviewsOfPR(reviews, prNumber)
    IN  IF Len(prComments) = 0 /\ Len(prReviews) = 0
        THEN /\ sumResponse' = SummaryResponse("regenerate", 400, prNumber)
             /\ sumTasks' = [sumTasks EXCEPT ![s] = IdleSummaryTask]
             /\ UNCHANGED prSummaries
        ELSE /\ prSummaries' = [prSummaries EXCEPT ![prNumber] = None]
             /\ sumTasks' = [sumTasks EXCEPT ![s].pc = "generate",
                                             ![s].queue = <<>>]
             /\ sumResponse' = None

\* pulls.listReviewComments resolves inside fetchPRReviewComments: its loop
\* suspends at the first comment that is not in the store, or runs out and
\* the handler goes on.  A rejected call is logged and leaves the store as
\* an empty answer does.
RegenerateReviewCommentsOk(s, reviewComments) ==
    /\ sumTasks[s].kind = "regenerate"
    /\ sumTasks[s].pc = "listReviewComments"
    /\ LET queue == skipExisting(reviewComments, comments)
       IN  IF queue # <<>>
           THEN /\ sumTasks' = [sumTasks EXCEPT ![s].pc = "codeContext",
                                                ![s].queue = queue]
                /\ sumResponse' = None
                /\ UNCHANGED prSummaries
           ELSE RegenerateGathered(s, comments)
    /\ UNCHANGED <<comments, bgAttempted>>
    /\ SummariesOnly

\* getCachedCodeContext settles: the comment is pushed and the loop goes on.
RegenerateCodeContextDone(s) ==
    /\ sumTasks[s].kind = "regenerate"
    /\ sumTasks[s].pc = "codeContext"
    /\ LET task == sumTasks[s]
           pushed == Append(comments, Comment(Head(task.queue), task.pr, "review"))
           queue == skipExisting(Tail(task.queue), pushed)
       IN  /\ comments' = pushed
           /\ IF queue # <<>>
              THEN /\ sumTasks' = [sumTasks EXCEPT ![s].queue = queue]
                   /\ sumResponse' = None
                   /\ UNCHANGED prSummaries
              ELSE RegenerateGathered(s, pushed)
    /\ UNCHANGED bgAttempted
    /\ SummariesOnly

\* The summarizer returns: the new summary is cached and sent.
RegenerateDone(s) ==
    /\ sumTasks[s].kind = "regenerate"
    /\ sumTasks[s].pc = "generate"
    /\ prSummaries' = [prSummaries EXCEPT ![sumTasks[s].pr] =
                          Some(PRSummary("gemini", now))]
    /\ sumTasks' = [sumTasks EXCEPT ![s] = IdleSummaryTask]
    /\ sumResponse' = SummaryResponse("regenerate", 200, sumTasks[s].pr)
    /\ UNCHANGED <<comments, bgAttempted>>
    /\ SummariesOnly

\* The summarizer throws: the handler's catch answers 500.
RegenerateFail(s) ==
    /\ sumTasks[s].kind = "regenerate"
    /\ sumTasks[s].pc = "generate"
    /\ sumTasks' = [sumTasks EXCEPT ![s] = IdleSummaryTask]
    /\ sumResponse' = SummaryResponse("regenerate", 500, sumTasks[s].pr)
    /\ UNCHANGED <<prSummaries, comments, bgAttempted>>
    /\ SummariesOnly

\* generateBackgroundSummaries (lines 962-1067).
batchSize == 3

\* the filter of lines 966-978
needsSummary(pr, summaries) ==
    IF ~hasSummary(summaries, pr.github_pr_number) THEN TRUE
    ELSE pr.updated_at > Val(summaries[pr.github_pr_number]).generated_at

prsNeedingSummaries(prs, summaries) ==
    SelectSeq(prs, LAMBDA pr : needsSummary(pr, summaries))

\* a loop over the whole of prsNeedingSummaries
loopLimit_All(batch) == Len(batch)

\* Math.min(prsNeedingSummaries.length, batchSize)
loopLimit(batch) == IF Len(batch) < batchSize THEN Len(batch) ELSE batchSize

\* The loop of generateBackgroundSummaries from position i (counted from 1)
\* up to its next await or its end: the attempts it logs, the code-only
\* summaries it caches, and where it suspends.
RECURSIVE backgroundLoop(_, _, _, _, _, _, _)
backgroundLoop(batch, i, summaries, attempted, allComments, allReviews, clock) ==
    IF i > loopLimit(batch)
    THEN [pc |-> "idle", i |-> 0, summaries |-> summaries, attempted |-> attempted]
    ELSE
      LET pr == batch[i]
          prComments == commentsOfPR(allComments, pr.github_pr_number)
          prReviews == reviewsOfPR(allReviews, pr.github_pr_number)
          analysis == analysisOf(prComments, prReviews)
          logged == attempted \cup {pr.github_pr_number}
      IN  IF analysis.strategy.type = "code_only"
          THEN [pc |-> "delay", i |-> i,
                summaries |-> [summaries EXCEPT ![pr.github_pr_number] =
                                  Some(PRSummary("code-analysis", clock))],
                attempted |-> logged]
          ELSE IF analysis.humanComments > 0 \/ analysis.humanReviews > 0
          THEN [pc |-> "generate", i |-> i, summaries |-> summaries,
                attempted |-> logged]
          ELSE backgroundLoop(batch, i + 1, summaries, logged,
                              allComments, allReviews, clock)

\* The run in slot s goes on from position i of its batch.
BackgroundResume(s, batch, i, summaries) ==
    LET r == backgroundLoop(batch, i, summaries, bgAttempted, comments, reviews, now)
    IN  /\ sumTasks' = [sumTasks EXCEPT ![s] =
                           IF r.pc = "idle" THEN IdleSummaryTask
                           ELSE [IdleSummaryTask EXCEPT !.kind = "background",
                                     !.pc = r.pc, !.batch = batch, !.i = r.i,
                                     !.pr = batch[r.i].github_pr_number]]
        /\ prSummaries' = r.summaries
        /\ bgAttempted' = r.attempted
        /\ sumResponse' = None
        /\ UNCHANGED comments
        /\ SummariesOnly

\* The callback fetchConnectorPRs schedules (lines 1192-1195) calls
\* generateBackgroundSummaries, which runs up to its first await.
StartBackgroundSummaries(s) ==
    /\ SummaryIdle(s)
    /\ BackgroundResume(s, prsNeedingSummaries(pullRequests, prSummaries), 1,
                        prSummaries)

\* The summarizer returns to the run: the summary is cached (line 1048) and
\* the run waits a second.
BackgroundSummaryDone(s) ==
    /\ sumTasks[s].kind = "background"
    /\ sumTasks[s].pc = "generate"
    /\ prSummaries' = [prSummaries EXCEPT ![sumTasks[s].pr] =
                          Some(PRSummary("gemini", now))]
    /\ sumTasks' = [sumTasks EXCEPT ![s].pc = "delay"]
    /\ sumResponse' = None
    /\ UNCHANGED <<comments, bgAttempted>>
    /\ SummariesOnly

\* The summarizer throws: the catch of the loop body logs and the loop goes
\* on with the next PR of the batch.
BackgroundSummaryFail(s) ==
    /\ sumTasks[s].kind = "background"
    /\ sumTasks[s].pc = "generate"
    /\ BackgroundResume(s, sumTasks[s].batch, sumTasks[s].i + 1, prSummaries)

\* The delay of line 1059 is over.
BackgroundDelayDone(s) ==
    /\ sumTasks[s].kind = "background"
    /\ sumTasks[s].pc = "delay"
    /\ BackgroundResume(s, sumTasks[s].batch, sumTasks[s].i + 1, prSummaries)

(***************************************************************************)
(* SpecSummaries: the summary routes and the background runs, two of them  *)
(* in flight, on a store with at most one PR.  Requests name PR 1 or a PR  *)
(* that is not in the store.                                               *)
(***************************************************************************)
MaxSummaryKey == 2
SummaryKeys == 1..MaxSummaryKey
SummaryClock == {0, 40}

SummaryReviewStores == {<<>>} \cup {<<r>> : r \in SummaryReviews}

SummaryCommentStores ==
    { <<>>,
      <<Comment([id |-> 1, login |-> Some(Units("alice")),
                 body |-> Units("Please fix it")], 1, "general")>> }

InitSummaries ==
    /\ now \in SummaryClock
    /\ pullRequests \in {mapConnectorPRs(prs) : prs \in HostPRLists}
    /\ reviews \in SummaryReviewStores
    /\ comments \in SummaryCommentStores
    /\ commentCategorizationCache = None
    /\ fetchTasks = <<>>
    /\ catTasks = <<>>
    /\ postFetchTimer = FALSE
    /\ response = None
    /\ prsUpdated = None
    /\ prSummaries = [n \in SummaryKeys |-> None]
    /\ sumTasks = [s \in SummarySlots |-> IdleSummaryTask]
    /\ sumResponse = None
    /\ bgAttempted = {}
    /\ RateLimiterOff
    /\ TimelineOff
    /\ FunctionsOff

NextSummaries ==
    \/ \E s \in DOMAIN sumTasks : \E n \in SummaryKeys : GetSummary(s, n)
    \/ \E s \in DOMAIN sumTasks : GetSummaryDone(s)
    \/ \E s \in DOMAIN sumTasks : GetSummaryFail(s)
    \/ \E s \in DOMAIN sumTasks : \E n \in SummaryKeys : Regenerate(s, n)
    \/ \E s \in DOMAIN sumTasks : \E cs \in HostCommentLists :
          RegenerateCommentsOk(s, cs)
    \/ \E s \in DOMAIN sumTasks : RegenerateCommentsFail(s)
    \/ \E s \in DOMAIN sumTasks : \E cs \in HostCommentLists :
          RegenerateReviewCommentsOk(s, cs)
    \/ \E s \in DOMAIN sumTasks : RegenerateCodeContextDone(s)
    \/ \E s \in DOMAIN sumTasks : RegenerateDone(s)
    \/ \E s \in DOMAIN sumTasks : RegenerateFail(s)
    \/ \E s \in DOMAIN sumTasks : StartBackgroundSummaries(s)
    \/ \E s \in DOMAIN sumTasks : BackgroundSummaryDone(s)
    \/ \E s \in DOMAIN sumTasks : BackgroundSummaryFail(s)
    \/ \E s \in DOMAIN sumTasks : BackgroundDelayDone(s)

SpecSummaries == InitSummaries /\ [][NextSummaries]_vars

(***************************************************************************)
(* SpecBackground: repeated runs of generateBackgroundSummaries, one at a  *)
(* time, on a store that does not change: PRs that were last updated       *)
(* before the runs start, each with or without a comment of a human.  The  *)
(* callback of fetchConnectorPRs starts a run after every refresh; a       *)
(* started summarizer returns or throws, and the delay of a run ends.      *)
(***************************************************************************)
MaxBackgroundPRs == 4
BackgroundSlots == {"s1"}
BackgroundClock == 40

BackgroundPR(n) ==
    PullRequest([number |-> n, login |-> Some("dev"), updated_at |-> 6,
                 state |-> "open", labels |-> <<ConnectorLabel>>])

BackgroundComment(n) ==
    Comment([id |-> n, login |-> Some(Units("alice")),
             body |-> Units("Please fix it")], n, "general")

\* The comments of the PRs in a set, in the order of the numbers.
RECURSIVE BackgroundComments(_, _)
BackgroundComments(n, discussed) ==
    IF n = 0 THEN <<>>
    ELSE BackgroundComments(n - 1, discussed)
         \o (IF n \in discussed THEN <<BackgroundComment(n)>> ELSE <<>>)

InitBackground ==
    /\ now = BackgroundClock
    /\ \E count \in 1..MaxBackgroundPRs :
          /\ pullRequests = [n \in 1..count |-> BackgroundPR(n)]
          /\ \E discussed \in SUBSET (1..count) :
                comments = BackgroundComments(count, discussed)
    /\ reviews = <<>>
    /\ commentCategorizationCache = None
    /\ fetchTasks = <<>>
    /\ catTasks = <<>>
    /\ postFetchTimer = FALSE
    /\ response = None
    /\ prsUpdated = None
    /\ prSummaries = [n \in 1..MaxBackgroundPRs |-> None]
    /\ sumTasks = [s \in BackgroundSlots |-> IdleSummaryTask]
    /\ sumResponse = None
    /\ bgAttempted = {}
    /\ RateLimiterOff
    /\ TimelineOff
    /\ FunctionsOff

SummarizerSettles ==
    \E s \in DOMAIN sumTasks : BackgroundSummaryDone(s) \/ BackgroundSummaryFail(s)

NextBackground ==
    \/ \E s \in DOMAIN sumTasks : StartBackgroundSummaries(s)
    \/ \E s \in DOMAIN sumTasks : BackgroundSummaryDone(s)
    \/ \E s \in DOMAIN sumTasks : BackgroundSummaryFail(s)
    \/ \E s \in DOMAIN sumTasks : BackgroundDelayDone(s)

SpecBackground ==
    /\ InitBackground
    /\ [][NextBackground]_vars
    /\ WF_vars(\E s \in DOMAIN sumTasks : StartBackgroundSummaries(s))
    /\ WF_vars(SummarizerSettles)
    /\ WF_vars(\E s \in DOMAIN sumTasks : BackgroundDelayDone(s))

(***************************************************************************)
(* Properties of the summaries (SpecSummaries).                            *)
(***************************************************************************)
RegenerateAnswers(status, prNumber) ==
    sumResponse' = SummaryResponse("regenerate", status, prNumber)

\* A step of the regenerate handler in slot s.
RegenerateStep(s) ==
    /\ sumTasks'[s] # sumTasks[s]
    /\ sumTasks[s].kind = "regenerate" \/ sumTasks'[s].kind = "regenerate"

\* The step in which the handler in slot s calls the summarizer.
CallsSummarizer(s) ==
    /\ RegenerateStep(s)
    /\ sumTasks[s].pc # "generate"
    /\ sumTasks'[s].pc = "generate"

\* C34 as stated: a 404 or a 400 of POST summary/regenerate leaves the cached
\* summary of the PR as it was, and after a 500 the PR has no cached summary.
C34_NoSummaryAfterFailure ==
    [][\A n \in SummaryKeys :
          /\ (RegenerateAnswers(404, n) \/ RegenerateAnswers(400, n)) =>
                prSummaries'[n] = prSummaries[n]
          /\ RegenerateAnswers(500, n) => prSummaries'[n] = None]_vars

\* C34: the 404 and the 400 of POST summary/regenerate are answered by steps
\* that leave prSummaries unchanged, and no step of the handler before its
\* call of the summarizer changes it; the step that calls the summarizer
\* deletes the summary of the PR and nothing else; the 500 leaves prSummaries
\* unchanged, so the deleted summary is not restored and the PR has a
\* summary then only if another handler stored one while the summarizer was
\* pending.
C34_DeletedAndNotRestored ==
    [][/\ \A n \in SummaryKeys :
             (RegenerateAnswers(404, n) \/ RegenerateAnswers(400, n)
                  \/ RegenerateAnswers(500, n)) => prSummaries' = prSummaries
       /\ \A s \in DOMAIN sumTasks :
             /\ CallsSummarizer(s) =>
                   prSummaries' = [prSummaries EXCEPT ![sumTasks[s].pr] = None]
             /\ (RegenerateStep(s) /\ sumTasks'[s].pc # "generate"
                     /\ sumTasks[s].pc # "generate") =>
                   prSummaries' = prSummaries]_vars

\* POST summary/regenerate has answered 500 for a PR that has no summary.
C34_Witness ==
    /\ sumResponse = SummaryResponse("regenerate", 500, 1)
    /\ prSummaries[1] = None

\* Reviews without a body or with a body of fewer than MinHumanLength
\* characters, from a person and from a bot.
ShortReviews ==
    [ reviewer_username : {Units("alice"), Units("codecov[bot]")},
      content : {None, Some(Units("")), Some(Units("LGTM")),
                 Some(Units("Good work")), Some(Units("         "))} ]

ShortReviewsAreNotHuman == \A r \in ShortReviews : ~isHumanReview(r)

IsShortReview(r) ==
    \E q \in ShortReviews :
        q.reviewer_username = r.reviewer_username /\ q.content = r.content

\* The only interactions of PR prNumber are reviews without text.
OnlyShortReviews(prNumber) ==
    /\ findPR(pullRequests, prNumber) # None
    /\ commentsOfPR(comments, prNumber) = <<>>
    /\ reviewsOfPR(reviews, prNumber) # <<>>
    /\ \A k \in 1..Len(reviews) : IsShortReview(reviews[k])

\* C40: a review whose body is absent or shorter than 10 characters is not
\* human for isHumanReview, whoever the reviewer is; a PR whose only
\* interactions are such reviews gets the strategy code_only; and GET
\* summary never answers 400.
C40_ShortReviewsGiveCodeOnly ==
    /\ ShortReviewsAreNotHuman
    /\ \A n \in SummaryKeys :
          /\ OnlyShortReviews(n) =>
                analysisOf(commentsOfPR(comments, n),
                           reviewsOfPR(reviews, n)).strategy.type = "code_only"
          /\ sumResponse # SummaryResponse("summary", 400, n)

\* GET summary has answered for a PR whose only interaction is an approval
\* of four characters: the summary stored is the one of the code analysis.
C40_Witness ==
    /\ OnlyShortReviews(1)
    /\ reviews[1].content = Some(Units("LGTM"))
    /\ sumResponse = SummaryResponse("summary", 200, 1)
    /\ prSummaries[1] = Some(PRSummary("code-analysis", now))

(***************************************************************************)
(* Properties of the background summaries (SpecBackground).                *)
(***************************************************************************)
NeedingSummary ==
    {pullRequests[k].github_pr_number : k \in {j \in 1..Len(pullRequests) :
        needsSummary(pullRequests[j], prSummaries)}}

\* C35: a run attempts at most 3 PRs, and under repeated runs on unchanged PR
\* data every PR that needs a summary is eventually attempted, also when the
\* attempts for PRs earlier in the list keep failing.
C35_EveryPRAttempted ==
    /\ [](\A s \in DOMAIN sumTasks : sumTasks[s].i <= batchSize)
    /\ \A n \in 1..MaxBackgroundPRs :
          (n \in NeedingSummary) ~> (n \in bgAttempted)

(***************************************************************************)
(* The rate limiter of /api (lines 38-58): a Map from the client address   *)
(* to the count and the reset time of its window.  Time is in hours, and   *)
(* Date.now() is compared with resetTime as the code compares them.        *)
(* SpecRateLimiter starts from an empty Map or from windows opened at hour *)
(* 0 in which a client has made one request, one request less than the     *)
(* limit, or as many as the limit.                                         *)
(***************************************************************************)
RATE_LIMIT == 1000000
RATE_WINDOW == 1

Clients == {"10.0.0.1", "unknown"}
MaxRateClock == 3
SeedCounts == {1, RATE_LIMIT - 1, RATE_LIMIT}

\* the middleware with a limit that is passed once
RateLimiter_Inclusive(clientIP) ==
    /\ LET clientData == requestCounts[clientIP]
       IN  IF clientData = None \/ now > Val(clientData).resetTime
           THEN /\ requestCounts' = [requestCounts EXCEPT ![clientIP] =
                       Some([count |-> 1, resetTime |-> now + RATE_WINDOW])]
                /\ passedInWindow' = [passedInWindow EXCEPT ![clientIP] = 1]
                /\ rateAnswer' = Some([client |-> clientIP, answer |-> "next"])
           ELSE IF Val(clientData).count <= RATE_LIMIT
           THEN /\ requestCounts' = [requestCounts EXCEPT ![clientIP] =
                       Some([Val(clientData) EXCEPT !.count = @ + 1])]
                /\ passedInWindow' = [passedInWindow EXCEPT ![clientIP] = @ + 1]
                /\ rateAnswer' = Some([client |-> clientIP, answer |-> "next"])
           ELSE /\ rateAnswer' = Some([client |-> clientIP, answer |-> "429"])
                /\ UNCHANGED <<requestCounts, passedInWindow>>
    /\ UNCHANGED <<now, pullRequests, reviews, comments, commentCategorizationCache,
                   fetchTasks, catTasks, postFetchTimer, response, prsUpdated,
                   summaryVars, tlVars, fnVars>>

\* A request to /api from clientIP passes the middleware of lines 42-56.
RateLimiter(clientIP) ==
    /\ LET clientData == requestCounts[clientIP]
       IN  IF clientData = None \/ now > Val(clientData).resetTime
           THEN /\ requestCounts' = [requestCounts EXCEPT ![clientIP] =
                       Some([count |-> 1, resetTime |-> now + RATE_WINDOW])]
                /\ passedInWindow' = [passedInWindow EXCEPT ![clientIP] = 1]
                /\ rateAnswer' = Some([client |-> clientIP, answer |-> "next"])
           ELSE IF Val(clientData).count < RATE_LIMIT
           THEN /\ requestCounts' = [requestCounts EXCEPT ![clientIP] =
                       Some([Val(clientData) EXCEPT !.count = @ + 1])]
                /\ passedInWindow' = [passedInWindow EXCEPT ![clientIP] = @ + 1]
                /\ rateAnswer' = Some([client |-> clientIP, answer |-> "next"])
           ELSE /\ rateAnswer' = Some([client |-> clientIP, answer |-> "429"])
                /\ UNCHANGED <<requestCounts, passedInWindow>>
    /\ UNCHANGED <<now, pullRequests, reviews, comments, commentCategorizationCache,
                   fetchTasks, catTasks, postFetchTimer, response, prsUpdated,
                   summaryVars, tlVars, fnVars>>

\* An hour passes.
RateTick ==
    /\ now < MaxRateClock
    /\ now' = now + 1
    /\ rateAnswer' = None
    /\ UNCHANGED <<requestCounts, passedInWindow, pullRequests, reviews, comments,
                   commentCategorizationCache, fetchTasks, catTasks,
                   postFetchTimer, response, prsUpdated, summaryVars, tlVars,
                   fnVars>>

InitRateLimiter ==
    /\ now = 0
    /\ \E seed \in [Clients -> {0} \cup SeedCounts] :
          /\ requestCounts =
                [c \in Clients |->
                    IF seed[c] = 0 THEN None
                    ELSE Some([count |-> seed[c], resetTime |-> RATE_WINDOW])]
          /\ passedInWindow = seed
    /\ rateAnswer = None
    /\ pullRequests = <<>>
    /\ reviews = <<>>
    /\ comments = <<>>
    /\ commentCategorizationCache = None
    /\ fetchTasks = <<>>
    /\ catTasks = <<>>
    /\ postFetchTimer = FALSE
    /\ response = None
    /\ prsUpdated = None
    /\ SummariesOff
    /\ TimelineOff
    /\ FunctionsOff

\* The counts that are followed: a client goes on in a window up to
\* MaxLowCount requests, or from one request less than the limit on.
MaxLowCount == 3

Followed(c) ==
    IF requestCounts[c] = None THEN TRUE
    ELSE IF now > Val(requestCounts[c]).resetTime THEN TRUE
    ELSE IF Val(requestCounts[c]).count < MaxLowCount THEN TRUE
    ELSE Val(requestCounts[c]).count >= RATE_LIMIT - 1

NextRateLimiter ==
    \/ \E c \in Clients : Followed(c) /\ RateLimiter(c)
    \/ RateTick

SpecRateLimiter == InitRateLimiter /\ [][NextRateLimiter]_vars

(***************************************************************************)
(* Properties of the rate limiter (SpecRateLimiter).                       *)
(***************************************************************************)
\* The stored count of a client never exceeds RATE_LIMIT and is the number
\* of its requests that reached a handler in its window.
CountWithinLimit ==
    \A c \in Clients :
        IsSome(requestCounts[c]) =>
            /\ Val(requestCounts[c]).count <= RATE_LIMIT
            /\ Val(requestCounts[c]).count >= 1
            /\ passedInWindow[c] = Val(requestCounts[c]).count

\* A request of a client whose window holds RATE_LIMIT requests and has not
\* ended gets 429 and changes nothing; a request that arrives strictly after
\* resetTime (or from a client without a window) reaches a handler and opens
\* a window with count 1 and resetTime = now + one hour; every other request
\* reaches a handler and adds one to the count.
RequestsAnswered ==
    [][\A c \in Clients :
          (rateAnswer' # None /\ Val(rateAnswer').client = c) =>
              LET old == requestCounts[c]
                  new == requestCounts'[c]
                  answer == Val(rateAnswer').answer
              IN  IF old # None /\ now <= Val(old).resetTime
                  THEN IF Val(old).count >= RATE_LIMIT
                       THEN answer = "429" /\ requestCounts' = requestCounts
                       ELSE /\ answer = "next"
                            /\ new = Some([Val(old) EXCEPT !.count = @ + 1])
                  ELSE /\ answer = "next"
                       /\ new = Some([count |-> 1, resetTime |-> now + RATE_WINDOW])]_vars

\* C36: for each client the stored count never exceeds RATE_LIMIT; within a
\* window at most RATE_LIMIT requests reach a handler and every further one
\* gets 429 without changing the counter; the first request strictly after
\* resetTime opens a new window with count 1 and resetTime = now + one hour.
C36_RateLimiter == []CountWithinLimit /\ RequestsAnswered

\* A client whose RATE_LIMIT requests reached a handler is refused at the
\* very hour its window ends.
C36_Witness ==
    \E c \in Clients :
        /\ rateAnswer = Some([client |-> c, answer |-> "429"])
        /\ requestCounts[c] = Some([count |-> RATE_LIMIT, resetTime |-> now])
        /\ passedInWindow[c] = RATE_LIMIT

(***************************************************************************)
(* Properties of the store (Spec).                                         *)
(***************************************************************************)
\* C1: no two stored comments share a github_comment_id, whatever the
\* interleaving of the fetch handlers.
C1_UniqueCommentIds ==
    \A i, j \in 1..Len(comments) :
        i # j => comments[i].github_comment_id # comments[j].github_comment_id

\* The entry createCacheEntry would store in the current state.
EntryNow ==
    Some(createCacheEntry(Categorization(pullRequests, comments), now,
                          pullRequests, comments))

StoreChanges ==
    \/ pullRequests' # pullRequests
    \/ reviews' # reviews
    \/ comments' # comments

HumanCount(allComments) ==
    Cardinality({k \in 1..Len(allComments) : IsHuman(allComments[k])})

GreatestUpdatedAt(prs) ==
    IF prs = <<>> THEN None
    ELSE Some(CHOOSE t \in {prs[k].updated_at : k \in 1..Len(prs)} :
                  \A k \in 1..Len(prs) : prs[k].updated_at <= t)

HashedValuesChange ==
    \/ Len(pullRequests') # Len(pullRequests)
    \/ Len(comments') # Len(comments)
    \/ GreatestUpdatedAt(pullRequests') # GreatestUpdatedAt(pullRequests)
    \/ HumanCount(comments') # HumanCount(comments)

AssignsPullRequests ==
    \E t \in DOMAIN fetchTasks :
        fetchTasks[t].pc = "listPRs" /\ fetchTasks'[t].pc # "listPRs"

\* C5 as stated: the array the store shows changes only by being replaced.
C5_RecordsImmutable ==
    [][~AssignsPullRequests => pullRequests' = pullRequests]_vars

SameFetchedFields(a, b) ==
    /\ a.github_pr_number = b.github_pr_number
    /\ a.author = b.author
    /\ a.updated_at = b.updated_at
    /\ a.status = b.status

\* C5: between two assignments of the array the fetched fields of a visible
\* record never change; requested_reviewers, current_approvals_count and
\* pending_reviewers are written in place, by the fetchConnectorPRs run
\* that created the array and is still looping over it.
C5_OnlyLoopFieldsWritten ==
    [][(~AssignsPullRequests /\ pullRequests' # pullRequests) =>
          /\ Len(pullRequests') = Len(pullRequests)
          /\ \A k \in 1..Len(pullRequests) :
                SameFetchedFields(pullRequests'[k], pullRequests[k])
          /\ \E t \in DOMAIN fetchTasks :
                /\ fetchTasks[t].entry = "connector"
                /\ fetchTasks[t].isGlobal
                /\ fetchTasks[t].list = pullRequests
                /\ fetchTasks'[t] # fetchTasks[t]]_vars

\* A visible record that has been written after it became visible.
C5_Witness ==
    \E k \in 1..Len(pullRequests) :
        /\ pullRequests[k].current_approvals_count > 0
        /\ pullRequests[k].requested_reviewers # <<>>

(***************************************************************************)
(* Properties of the categorization cache (SpecCache, SpecCacheLive).      *)
(***************************************************************************)
\* C2: the version of the stored entry is the version hash of the dataset
\* its data was computed from.
C2_VersionOfSnapshot ==
    commentCategorizationCache # None =>
        Val(commentCategorizationCache).version =
            Val(commentCategorizationCache).data.computed_from

CacheIsValid ==
    isCacheValid(commentCategorizationCache, now, pullRequests, comments)

\* C3: a null slot is never valid, and an entry created at time t whose
\* dataset is still the current one is valid exactly at the times before
\* t + CACHE_EXPIRY_HOURS.
C3_ValidUntilExpiry ==
    /\ ~isCacheValid(None, now, pullRequests, comments)
    /\ (/\ commentCategorizationCache # None
        /\ Val(commentCategorizationCache).version =
               generateDataVersionHash(pullRequests, comments))
       => (CacheIsValid <=>
              now < parseDate(Val(commentCategorizationCache).generated_at)
                       + CACHE_EXPIRY_HOURS)

\* An entry of the current dataset at the very hour it expires.
C3_Witness ==
    /\ commentCategorizationCache # None
    /\ Val(commentCategorizationCache).version =
           generateDataVersionHash(pullRequests, comments)
    /\ now = parseDate(Val(commentCategorizationCache).generated_at)
                + CACHE_EXPIRY_HOURS
    /\ ~CacheIsValid

Answered(status, cacheStatus) ==
    response' = Response("categorization", status, cacheStatus)

RunStarts(caller) ==
    \E c \in DOMAIN catTasks :
        catTasks[c].caller = "idle" /\ catTasks'[c].caller = caller

FreshEntry ==
    /\ commentCategorizationCache' # None
    /\ Val(commentCategorizationCache').generated_at = toISOString(now)
    /\ isCacheValid(commentCategorizationCache', now', pullRequests', comments')

\* The step in which a GET of the categorization arrives.
GetArrives ==
    \/ Answered(200, "HIT")
    \/ Answered(400, "")
    \/ RunStarts("get")
    \/ Answered(200, "MISS") /\ catTasks' = catTasks

\* C6: a GET that finds a valid entry answers from it, starts no run and
\* leaves the slot; a GET that finds no valid entry, with PRs and human
\* comments present, calls the categorizer; a GET answered with MISS has
\* stored a fresh entry; a GET answered with 400 or 500 leaves the slot.
C6_GetCategorization ==
    [][/\ (GetArrives /\ CacheIsValid) =>
              /\ Answered(200, "HIT")
              /\ commentCategorizationCache' = commentCategorizationCache
              /\ catTasks' = catTasks
       /\ (GetArrives /\ ~CacheIsValid /\ HasData) =>
              \/ RunStarts("get")
              \/ Answered(200, "MISS") /\ FreshEntry
       /\ Answered(200, "MISS") => FreshEntry
       /\ (Answered(400, "") \/ Answered(500, "")) =>
              commentCategorizationCache' = commentCategorizationCache]_vars

\* A GET has been answered with a freshly computed entry.
C6_Witness ==
    /\ response = Response("categorization", 200, "MISS")
    /\ commentCategorizationCache # None
    /\ CacheIsValid

Refreshed == response = Response("refresh", 200, "")
Cleared == response = Response("clear", 200, "")

InFlight(c) == catTasks[c].caller # "idle"

\* C33: at most one categorization run is in flight: a GET, a post-refresh
\* callback or a manual refresh that arrives while a run is suspended in the
\* categorizer starts no second run for the same dataset.  Stated in its
\* weakest reading: no two runs in flight were handed the same dataset.
C33_SingleRunInFlight ==
    \A c, d \in DOMAIN catTasks :
        (InFlight(c) /\ InFlight(d) /\ catTasks[c].result = catTasks[d].result)
            => c = d

(***************************************************************************)
(* Properties of the refresh of reviews (SpecReviews).                     *)
(***************************************************************************)
\* The reviewers whose most recent review in a list of GitHub is in a state.
LastInAnswer(answer, githubStates) ==
    { answer[k].login : k \in { i \in 1..Len(answer) :
          /\ answer[i].state \in githubStates
          /\ \A j \in (i + 1)..Len(answer) : answer[j].login # answer[i].login } }

\* The reviewers whose most recent stored review of a PR is approved.
ApprovedNow(allReviews, prNumber) ==
    { allReviews[k].reviewer_username : k \in { i \in 1..Len(allReviews) :
          /\ allReviews[i].pr_id = prNumber
          /\ allReviews[i].review_state = "approved"
          /\ \A j \in (i + 1)..Len(allReviews) :
                ~(/\ allReviews[j].pr_id = prNumber
                  /\ allReviews[j].reviewer_username
                        = allReviews[i].reviewer_username) } }

\* The step in which task t, with its reviews fetched, returns from
\* fetchPRReviews into the loop of fetchConnectorPRs and writes its record.
WritesRecord(t) ==
    /\ fetchTasks[t].entry = "connector"
    /\ fetchTasks[t].isGlobal
    /\ fetchTasks[t].pc = "listReviewComments"
    /\ fetchTasks'[t].pc # "listReviewComments"

StoredFor(allReviews, prNumber) ==
    SelectSeq(allReviews, LAMBDA r : r.pr_id = prNumber)

\* C31: when listReviews answers for a PR, the store afterwards holds one
\* review of the PR for every review of the answer, in the order of the
\* answer: a reviewer's earlier reviews with is_latest_review false and the
\* most recent one with is_latest_review true.
C31_StaleReviewsRetained ==
    [][\A t \in DOMAIN fetchTasks :
          (fetchTasks[t].pc = "listReviews" /\ fetchTasks'[t].pc # "listReviews") =>
              \A rs \in ReviewAnswers :
                  ListReviewsOk(t, rs) =>
                      LET stored == StoredFor(reviews', fetchTasks[t].pr)
                      IN  /\ Len(stored) = Len(rs)
                          /\ \A k \in 1..Len(rs) :
                                /\ stored[k].reviewer_username = rs[k].login
                                /\ stored[k].is_latest_review
                                      = (\A j \in (k + 1)..Len(rs) :
                                            rs[j].login # rs[k].login)]_vars

\* C32: whatever the interleaving of the runs of fetchPRReviews and
\* fetchConnectorPRs, the store holds at most one review for a PR and a
\* reviewer, and every stored review has is_latest_review true.
C32_OneReviewPerReviewer ==
    /\ \A i, j \in 1..Len(reviews) :
          (/\ reviews[i].pr_id = reviews[j].pr_id
           /\ reviews[i].reviewer_username = reviews[j].reviewer_username) => i = j
    /\ \A i \in 1..Len(reviews) : reviews[i].is_latest_review

\* Two runs, both past listReviews for the same PR, and a store with the
\* reviews of two reviewers.
C32_Witness ==
    /\ \E t, u \in DOMAIN fetchTasks :
          /\ t # u
          /\ fetchTasks[t].pc = "listReviewComments"
          /\ fetchTasks[u].pc = "listReviewComments"
          /\ fetchTasks[t].pr = fetchTasks[u].pr
    /\ Len(reviews) = 2

(***************************************************************************)
(* Properties of the prs_updated broadcast (Spec).                         *)
(***************************************************************************)
\* The step in which the fetchConnectorPRs run of task t, having fetched the
\* reviews of its last PR without an error, leaves its loop and broadcasts.
BroadcastsAfterLoop(t) ==
    /\ fetchTasks[t].entry = "connector"
    /\ fetchTasks[t].pc \in {"listReviewComments", "codeContext"}
    /\ fetchTasks'[t].pc = "idle"
    /\ prsUpdated' # None

\* The record of a PR carries the approvals and the pending reviewers that
\* a refresh computes from the stored reviews.
IsRefreshed(pr, allReviews) ==
    /\ pr.current_approvals_count = countApprovals(allReviews, pr.github_pr_number)
    /\ pr.pending_reviewers =
          getPendingReviewers(allReviews, pr.github_pr_number,
                              pr.requested_reviewers, pr.author)

\* C21: every PR of the list a prs_updated message carries has had
\* current_approvals_count and pending_reviewers recomputed by a refresh,
\* also when two fetchConnectorPRs runs overlap.
C21_BroadcastIsRefreshed ==
    [][\A t \in DOMAIN fetchTasks :
          BroadcastsAfterLoop(t) =>
              \A k \in 1..Len(Val(prsUpdated')) :
                  IsRefreshed(Val(prsUpdated')[k], reviews')]_vars

====
